---- MODULE Spec2Model ----
(***************************************************************************)
(* Model of the resigning pipeline of pkg/resigner (Resigner.Resign and    *)
(* the helpers it drives).  File names are sequences of one-character      *)
(* strings, paths are sequences of names, so that filepath.Ext, ToLower    *)
(* and the lexical order of filepath.Walk are computed as the code does.   *)
(***************************************************************************)
EXTENDS Integers, Sequences, FiniteSets, TLC

\* ------------------------------------------------------------------ bounds
\* Largest number of entries below the application root in a source tree.
MaxEntries == 2

\* ------------------------------------------------------- characters, names
\* Byte values of the characters used in names (ASCII).
Code ==
  "." :> 46 @@ "0" :> 48 @@ "1" :> 49 @@ "2" :> 50 @@ "3" :> 51 @@ "4" :> 52 @@
  "5" :> 53 @@ "6" :> 54 @@ "7" :> 55 @@ "8" :> 56 @@ "9" :> 57 @@ "A" :> 65 @@
  "B" :> 66 @@ "F" :> 70 @@ "I" :> 73 @@ "P" :> 80 @@ "R" :> 82 @@ "S" :> 83 @@
  "V" :> 86 @@ "W" :> 87 @@ "a" :> 97 @@ "b" :> 98 @@ "c" :> 99 @@ "d" :> 100 @@
  "e" :> 101 @@ "f" :> 102 @@ "g" :> 103 @@ "h" :> 104 @@ "i" :> 105 @@ "j" :> 106 @@
  "k" :> 107 @@ "l" :> 108 @@ "m" :> 109 @@ "n" :> 110 @@ "o" :> 111 @@ "p" :> 112 @@
  "q" :> 113 @@ "r" :> 114 @@ "s" :> 115 @@ "t" :> 116 @@ "u" :> 117 @@ "v" :> 118 @@
  "w" :> 119 @@ "x" :> 120 @@ "y" :> 121 @@ "z" :> 122 @@ "-" :> 45 @@
  "Z" :> 90 @@ "_" :> 95

Chr(n) == CHOOSE c \in DOMAIN Code : Code[c] = n

\* strings.ToLower on one byte, then on a name.
LowerChar(c) == IF Code[c] >= 65 /\ Code[c] <= 90 THEN Chr(Code[c] + 32) ELSE c

ToLower(s) == [i \in 1..Len(s) |-> LowerChar(s[i])]

\* Index of the last "." of a name, 0 when there is none.
LastDot(name) ==
  IF \E i \in 1..Len(name) : name[i] = "."
  THEN CHOOSE i \in 1..Len(name) :
         name[i] = "." /\ \A j \in (i+1)..Len(name) : name[j] # "."
  ELSE 0

\* filepath.Ext of a single name: the suffix starting at the last dot.
ExtOfName(name) ==
  IF LastDot(name) = 0 THEN <<>> ELSE SubSeq(name, LastDot(name), Len(name))

\* filepath.Ext of a path: the scan stops at the last separator, so only the
\* last element of the path is inspected.
Ext(path) == IF path = <<>> THEN <<>> ELSE ExtOfName(path[Len(path)])

\* filepath.Base and filepath.Dir on a non-empty path.
Base(path) == path[Len(path)]

Dir(path) == SubSeq(path, 1, Len(path) - 1)

\* strings.TrimSuffix
TrimSuffix(s, suf) ==
  IF Len(suf) <= Len(s) /\ SubSeq(s, Len(s) - Len(suf) + 1, Len(s)) = suf
  THEN SubSeq(s, 1, Len(s) - Len(suf))
  ELSE s

\* Byte-wise order of two names (the order of sort.Strings).
NameLess(a, b) ==
  \E k \in 1..(Len(a) + 1) :
    /\ k <= Len(b)
    /\ \A j \in 1..(k-1) : j <= Len(a) /\ a[j] = b[j]
    /\ (k = Len(a) + 1 \/ (k <= Len(a) /\ Code[a[k]] < Code[b[k]]))

\* The extensions the code compares against, and those the command line and
\* the window ask of the optional files.
Suffix ==
  [app |-> <<".", "a", "p", "p">>,
   appex |-> <<".", "a", "p", "p", "e", "x">>,
   framework |-> <<".", "f", "r", "a", "m", "e", "w", "o", "r", "k">>,
   dylib |-> <<".", "d", "y", "l", "i", "b">>,
   ipa |-> <<".", "i", "p", "a">>,
   plist |-> <<".", "p", "l", "i", "s", "t">>,
   mobileprovision |-> <<".", "m", "o", "b", "i", "l", "e", "p", "r", "o", "v", "i", "s", "i", "o", "n">>]

\* The fixed file and directory names of the code, and the "." and ".."
\* elements of a path.
Name ==
  [tmp |-> <<"t", "m", "p">>,
   app |-> <<"a", "p", "p">>,
   Payload |-> <<"P", "a", "y", "l", "o", "a", "d">>,
   Resigned |-> <<"R", "e", "s", "i", "g", "n", "e", "d">>,
   entitlements |-> <<"e", "n", "t", "i", "t", "l", "e", "m", "e", "n", "t", "s", ".", "p", "l", "i", "s", "t">>,
   provisioning |-> <<"p", "r", "o", "v", "i", "s", "i", "o", "n", "i", "n", "g", ".", "p", "l", "i", "s", "t">>,
   embedded |-> <<"e", "m", "b", "e", "d", "d", "e", "d", ".", "m", "o", "b", "i", "l", "e", "p", "r", "o", "v", "i", "s", "i", "o", "n">>,
   Info |-> <<"I", "n", "f", "o", ".", "p", "l", "i", "s", "t">>,
   dot |-> <<".">>,
   dotdot |-> <<".", ".">>]

\* --------------------------------------------------------------- file system
\* A file system is a function from paths to entries [isDir, data], the paths
\* being relative to the directory that holds the source (filepath.Dir of
\* SourceIPA).  The data of a regular file is an abstract content value.
DirEntry == [isDir |-> TRUE, data |-> "-"]

FileEntry(d) == [isDir |-> FALSE, data |-> d]

IsPrefix(p, q) == Len(p) <= Len(q) /\ SubSeq(q, 1, Len(p)) = p

Exists(f, p) == p \in DOMAIN f

IsDirAt(f, p) == p \in DOMAIN f /\ f[p].isDir

\* The proper prefixes of a path together with the path itself, <<>> excluded
\* (<<>> is the directory of the source, which always exists).
Ancestors(p) == {SubSeq(p, 1, k) : k \in 1..Len(p)}

\* os.MkdirAll succeeds when no element of the path is a regular file.
CanMkdirAll(f, p) == \A q \in Ancestors(p) : q \in DOMAIN f => f[q].isDir

MkdirAll(f, p) ==
  [q \in DOMAIN f \cup Ancestors(p) |-> IF q \in DOMAIN f THEN f[q] ELSE DirEntry]

\* os.RemoveAll: the path and everything below it disappear.
RemoveAll(f, p) == [q \in {x \in DOMAIN f : ~IsPrefix(p, x)} |-> f[q]]

\* os.Create / os.WriteFile with O_TRUNC: the file holds exactly the new data.
CanCreate(f, p) ==
  /\ Len(p) > 0
  /\ (Len(p) > 1 => IsDirAt(f, Dir(p)))
  /\ ~IsDirAt(f, p)

WriteFile(f, p, d) ==
  [q \in DOMAIN f \cup {p} |-> IF q = p THEN FileEntry(d) ELSE f[q]]

\* The names in a directory, as os.ReadDir and filepath.Walk list them.
Children(f, p) == {q \in DOMAIN f : Len(q) = Len(p) + 1 /\ IsPrefix(p, q)}

\* A set of sibling paths as a sequence sorted by name (sort.Strings).
RECURSIVE SortedPaths(_)
SortedPaths(S) ==
  IF S = {} THEN <<>>
  ELSE LET m == CHOOSE x \in S : \A y \in S \ {x} : NameLess(Base(x), Base(y))
       IN <<m>> \o SortedPaths(S \ {m})

ReadDir(f, p) == SortedPaths(Children(f, p))

\* filepath.Walk: the root, then for a directory its entries in lexical
\* order, each walked in turn (pre-order).  A root that does not exist is
\* handed to the callback with the error only, so nothing is walked.
RECURSIVE Walk(_, _)
RECURSIVE WalkAll(_, _)
Walk(f, p) ==
  IF ~Exists(f, p) THEN <<>>
  ELSE IF f[p].isDir THEN <<p>> \o WalkAll(f, ReadDir(f, p)) ELSE <<p>>

WalkAll(f, ps) ==
  IF ps = <<>> THEN <<>> ELSE Walk(f, Head(ps)) \o WalkAll(f, Tail(ps))

\* --------------------------------------------------------- findComponents
\* The entries the walk callback appends to components.
IsComponent(f, p) ==
  IF f[p].isDir
  THEN Ext(p) = Suffix.app \/ Ext(p) = Suffix.appex \/ Ext(p) = Suffix.framework
  ELSE Ext(p) = Suffix.dylib

IsAppPath(p) == Ext(p) = Suffix.app

IsNonAppPath(p) == Ext(p) # Suffix.app

\* findComponents without the partition: the components in walk order.
findComponentsWalkOrder(f, appPath) ==
  LET Keep(p) == IsComponent(f, p)
  IN SelectSeq(Walk(f, appPath), Keep)

findComponents(f, appPath) ==
  LET Keep(p) == IsComponent(f, p)
      components == SelectSeq(Walk(f, appPath), Keep)
      appComponents == SelectSeq(components, IsAppPath)
      nonAppComponents == SelectSeq(components, IsNonAppPath)
  IN nonAppComponents \o appComponents

\* ------------------------------------------------------------ archive I/O
\* filepath.Clean on a sequence of path elements: "." is dropped and ".."
\* takes back the element before it; ".." elements that have nothing to take
\* back stay at the front and lead out of the directory of the source.
RECURSIVE Clean(_)
Clean(p) ==
  IF p = <<>> THEN <<>>
  ELSE LET c == Clean(SubSeq(p, 1, Len(p) - 1))
           last == p[Len(p)]
       IN IF last = Name.dot THEN c
          ELSE IF last = Name.dotdot /\ c # <<>> /\ c[Len(c)] # Name.dotdot
            THEN SubSeq(c, 1, Len(c) - 1)
          ELSE Append(c, last)

\* An archive is the sequence of its entries [name, isDir, data]; name is the
\* entry's relative path.  filepath.Join(dest, f.Name) joins and cleans:
Join(dest, rel) == Clean(dest \o rel)

\* One iteration of the loop of unzip.  A directory entry is created with the
\* result of os.MkdirAll ignored; a file entry needs its directory and is
\* written with O_CREATE|O_TRUNC.
UnzipEntryOk(f, dest, e) ==
  e.isDir \/ (CanMkdirAll(f, Dir(Join(dest, e.name))) /\
              ~IsDirAt(f, Join(dest, e.name)))

UnzipEntry(f, dest, e) ==
  IF e.isDir
  THEN IF CanMkdirAll(f, Join(dest, e.name))
       THEN MkdirAll(f, Join(dest, e.name)) ELSE f
  ELSE WriteFile(MkdirAll(f, Dir(Join(dest, e.name))), Join(dest, e.name), e.data)

\* The file system after the first n entries have been extracted.
RECURSIVE unzip(_, _, _, _)
unzip(f, entries, dest, n) ==
  IF n = 0 THEN f
  ELSE UnzipEntry(unzip(f, entries, dest, n - 1), dest, entries[n])

\* The number of entries unzip gets through before an entry it cannot write
\* makes it return an error; Len(entries) when there is none.
UnzipStop(f, entries, dest) ==
  IF \E n \in 1..Len(entries) :
       ~UnzipEntryOk(unzip(f, entries, dest, n - 1), dest, entries[n])
  THEN (CHOOSE n \in 1..Len(entries) :
          /\ ~UnzipEntryOk(unzip(f, entries, dest, n - 1), dest, entries[n])
          /\ \A k \in 1..(n-1) :
               UnzipEntryOk(unzip(f, entries, dest, k - 1), dest, entries[k])) - 1
  ELSE Len(entries)

\* The path taken relative to the parent of source, so that it starts with
\* the name of source.
RelToParent(source, path) == SubSeq(path, Len(source), Len(path))

\* filepath.Rel(source, path) for a path below source.
Rel(source, path) == SubSeq(path, Len(source) + 1, Len(path))

\* zipDirectory that adds an entry for regular files only.
zipDirectoryFilesOnly(f, source, n) ==
  LET all == [i \in 1..n |->
                LET q == Walk(f, source)[i]
                IN [name |-> Rel(source, q), isDir |-> f[q].isDir, data |-> f[q].data]]
      IsFile(e) == ~e.isDir
  IN SelectSeq(all, IsFile)

\* zipDirectory: one entry per walked path, named relative to source, in walk
\* order; the first n entries when the walk is cut short by an error.
zipDirectory(f, source, n) ==
  [i \in 1..n |->
     LET q == Walk(f, source)[i]
     IN [name |-> Rel(source, q), isDir |-> f[q].isDir, data |-> f[q].data]]

\* ---------------------------------------------------------------- copying
\* copyFile: dst holds the bytes of src.
CanCopyFile(f, src, dst) == Exists(f, src) /\ ~f[src].isDir /\ CanCreate(f, dst)

\* copyFile that opens an existing destination for appending.
copyFileAppends(f, src, dst) ==
  WriteFile(f, dst, IF Exists(f, dst) /\ ~f[dst].isDir
                    THEN f[dst].data \o f[src].data
                    ELSE f[src].data)

copyFile(f, src, dst) == WriteFile(f, dst, f[src].data)

\* The walk callback of copyDir that makes no directory.
CopyDirStepSkipsDirs(f, walked, src, dst, i) ==
  LET q == walked[i]
      targetPath == Join(dst, Rel(src, q))
  IN IF walked[i] \in DOMAIN f /\ f[q].isDir
     THEN f
     ELSE copyFile(f, q, targetPath)

\* copyDir: the walk callback on the i-th walked path of src.
CopyDirStep(f, walked, src, dst, i) ==
  LET q == walked[i]
      targetPath == Join(dst, Rel(src, q))
  IN IF walked[i] \in DOMAIN f /\ f[q].isDir
     THEN MkdirAll(f, targetPath)
     ELSE copyFile(f, q, targetPath)

CopyDirStepOk(f, walked, src, dst, i) ==
  LET q == walked[i]
      targetPath == Join(dst, Rel(src, q))
  IN /\ q \in DOMAIN f
     /\ IF f[q].isDir THEN CanMkdirAll(f, targetPath)
        ELSE CanCopyFile(f, q, targetPath)

\* The file system after the first n walked paths have been copied.
RECURSIVE copyDir(_, _, _, _, _)
copyDir(f, walked, src, dst, n) ==
  IF n = 0 THEN f
  ELSE CopyDirStep(copyDir(f, walked, src, dst, n - 1), walked, src, dst, n)

\* The number of walked paths copyDir gets through before one it cannot copy
\* makes it return an error; Len(walked) when there is none.
CopyDirStop(f, walked, src, dst) ==
  IF \E n \in 1..Len(walked) :
       ~CopyDirStepOk(copyDir(f, walked, src, dst, n - 1), walked, src, dst, n)
  THEN (CHOOSE n \in 1..Len(walked) :
          /\ ~CopyDirStepOk(copyDir(f, walked, src, dst, n - 1), walked, src, dst, n)
          /\ \A k \in 1..(n-1) :
               CopyDirStepOk(copyDir(f, walked, src, dst, k - 1), walked, src, dst, k)) - 1
  ELSE Len(walked)

\* ------------------------------------------------------------ source trees
\* The file names of the inputs: entries of a bundle, sources, input
\* files, files left by earlier runs and archive entries.
Fixture ==
  [Vappex |-> <<"V", ".", "a", "p", "p", "e", "x">>,
   Wappex |-> <<"W", ".", "a", "p", "p", "e", "x">>,
   Fframework |-> <<"F", ".", "f", "r", "a", "m", "e", "w", "o", "r", "k">>,
   Ldylib |-> <<"l", ".", "d", "y", "l", "i", "b">>,
   Adylib |-> <<"a", ".", "d", "y", "l", "i", "b">>,
   Bapp |-> <<"B", ".", "a", "p", "p">>,
   Zapp |-> <<"z", ".", "a", "p", "p">>,
   Ddylib |-> <<"d", ".", "d", "y", "l", "i", "b">>,
   Aapp |-> <<"A", ".", "a", "p", "p">>,
   Sipa |-> <<"s", ".", "i", "p", "a">>,
   Stxt |-> <<"s", ".", "t", "x", "t">>,
   Eplist |-> <<"e", ".", "p", "l", "i", "s", "t">>,
   Pprofile |-> <<"p", ".", "m", "o", "b", "i", "l", "e", "p", "r", "o", "v", "i", "s", "i", "o", "n">>,
   OldIpa |-> <<"o", ".", "i", "p", "a">>,
   Keep |-> <<"k">>,
   X |-> <<"x">>,
   Y |-> <<"y">>,
   Again |-> <<"a", "g", "a", "i", "n">>]

\* The entries a source application bundle may hold below its root: two
\* extensions, a framework with a library inside, a library, a nested
\* application, a regular file named like an application and a directory
\* named like a library.
Candidates ==
  { [path |-> <<Fixture.Vappex>>, isDir |-> TRUE, data |-> "-"],
    [path |-> <<Fixture.Wappex>>, isDir |-> TRUE, data |-> "-"],
    [path |-> <<Fixture.Fframework>>, isDir |-> TRUE, data |-> "-"],
    [path |-> <<Fixture.Fframework, Fixture.Ldylib>>, isDir |-> FALSE, data |-> "bin"],
    [path |-> <<Fixture.Adylib>>, isDir |-> FALSE, data |-> "bin"],
    [path |-> <<Fixture.Bapp>>, isDir |-> TRUE, data |-> "-"],
    [path |-> <<Fixture.Zapp>>, isDir |-> FALSE, data |-> "bin"],
    [path |-> <<Fixture.Ddylib>>, isDir |-> TRUE, data |-> "-"] }

\* The selections of at most MaxEntries candidates in which every entry has
\* its parent directory.
Selections ==
  { S \in SUBSET Candidates :
      /\ Cardinality(S) <= MaxEntries
      /\ \A c \in S : Len(c.path) > 1 => \E d \in S : d.path = Dir(c.path) }

\* The bundle of a selection, rooted at base: the root directory, the
\* embedded profile of the package and the selected entries.
Bundle(S, base) ==
  (base :> DirEntry) @@
  (Join(base, <<Name.embedded>>) :> FileEntry("profileEmbedded")) @@
  [q \in {Join(base, c.path) : c \in S} |->
     LET c == CHOOSE x \in S : Join(base, x.path) = q
     IN [isDir |-> c.isDir, data |-> c.data]]

\* The archive of a package whose Payload directory holds the bundle A.app,
\* its entries in the order a recursive walk of Payload gives.
PackageOf(S) ==
  LET f == (<<>> :> DirEntry) @@ (<<Name.Payload>> :> DirEntry) @@
           Bundle(S, <<Name.Payload, Fixture.Aapp>>)
  IN [i \in 1..Len(Walk(f, <<Name.Payload>>)) |->
        LET q == Walk(f, <<Name.Payload>>)[i]
        IN [name |-> q, isDir |-> f[q].isDir, data |-> f[q].data]]

\* A package whose Payload directory is empty.
EmptyPackage == << [name |-> <<Name.Payload>>, isDir |-> TRUE, data |-> "-"] >>

\* A package whose Payload directory holds two bundles, A.app and B.app.
PackageOfTwo ==
  LET f == (<<>> :> DirEntry) @@ (<<Name.Payload>> :> DirEntry) @@
           Bundle({}, <<Name.Payload, Fixture.Aapp>>) @@ Bundle({}, <<Name.Payload, Fixture.Bapp>>)
  IN [i \in 1..Len(Walk(f, <<Name.Payload>>)) |->
        LET q == Walk(f, <<Name.Payload>>)[i]
        IN [name |-> q, isDir |-> f[q].isDir, data |-> f[q].data]]

\* The largest selection tried in a directory that holds an earlier output.
MaxEntriesOverPrevious == 1

\* What an earlier run left in the output directory.
PreviousOutput ==
  (<<Name.Resigned>> :> DirEntry) @@ (<<Name.Resigned, Fixture.OldIpa>> :> FileEntry("previous"))

\* The largest selection tried in a directory that holds an earlier temp
\* directory.
MaxEntriesOverStale == 0

\* A temp directory that is there before the run, left by an earlier run or
\* made by the user, with a file in its working directory.
StaleTemp ==
  (<<Name.tmp>> :> DirEntry) @@ (<<Name.tmp, Name.app>> :> DirEntry) @@
  (<<Name.tmp, Name.app, Fixture.Keep>> :> FileEntry("stale"))

\* ------------------------------------------------------------------- state
VARIABLES
  config,            \* Resigner.config
  callback,          \* TRUE when Resigner.callback is not nil
  tmpDir,            \* Resigner.tmpDir, <<>> for ""
  appDir,            \* Resigner.appDir, <<>> for ""
  fs,                \* the file system below the directory of the source
  zips,              \* the entries of the archives held by files of fs
  pc,                \* position of the run inside Resign
  appPath,           \* local of Resign
  entitlementsPath,  \* local of Resign
  components,        \* local of signComponents
  idx,               \* loop position inside signComponents (1-based)
  extraCounter,      \* local of signComponents
  err,               \* the named result of Resign, <<>> for nil
  rec,               \* TRUE while a panic is unwinding the call of Resign
  calls,             \* the external tool invocations made so far
  progress,          \* the messages passed to logProgress so far
  delivered,         \* the messages the callback was invoked with so far
  fs0,               \* the file system as the run found it
  other,             \* a second run of Resign in the same directory
  gui,               \* the window of LaunchGUI: its button and goroutines
  sc                 \* the SetupChecker of the setup command

vars ==
  << config, callback, tmpDir, appDir, fs, zips, pc, appPath,
     entitlementsPath, components, idx, extraCounter, err, rec, calls,
     progress, delivered, fs0, other, gui, sc >>

locals == << appPath, entitlementsPath, components, idx, extraCounter >>

\* The second run: its position inside Resign, its tmpDir, appDir, appPath
\* and result, and the position the first run was at when the deferred
\* function of the second removed its temp directory.
NoOther ==
  [pc |-> "none", tmpDir |-> <<>>, appDir |-> <<>>, appPath |-> <<>>,
   err |-> <<>>, at |-> "none"]

\* No window: the Resign button, and the goroutines started by its handler
\* that have not ended.
NoGUI == [enabled |-> FALSE, inFlight |-> 0, dialog |-> "none"]

\* No setup command has run: the operating system, hasErrors, the tools
\* verified so far and those whose check failed, the phases of
\* ExecuteFullSetup that have run and the error it returned.
NoSetup ==
  [goos |-> "darwin", hasErrors |-> FALSE, verified |-> {}, failed |-> {},
   phases |-> <<>>, result |-> <<>>]

\* The flags codesign is started with.
CodesignFlags == {"--continue", "--generate-entitlement-der", "-f"}

\* An external tool invocation: the tool, the file it is pointed at, its
\* string argument, the entitlements file and flags (codesign only) and
\* whether it exited with status zero.
Call(tool, target, arg, ent, flags, ok) ==
  [tool |-> tool, target |-> target, arg |-> arg, ent |-> ent,
   flags |-> flags, ok |-> ok]

\* A progress message: the formatted text and the path formatted into it.
Msg(text) == [text |-> text, path |-> <<>>]

MsgP(text, path) == [text |-> text, path |-> path]

\* What "security cms -D" and "PlistBuddy Print:Entitlements" produce.
Decode(d) == "plist(" \o d \o ")"

PrintEntitlements(d) == "entitlements(" \o d \o ")"

\* ------------------------------------------------------------------- Init
\* A profile the user keeps in the directory named Resigned next to the
\* source.
ProfileInOutput == <<Name.Resigned, Fixture.Pprofile>>

\* The largest selection tried with such a profile.
MaxEntriesWithProfileInOutput == 0

Configs ==
  [ SourceIPA : {<<>>, <<Fixture.Sipa>>, <<Fixture.Aapp>>, <<Fixture.Stxt>>},
    Certificate : {"", "Test Cert"},
    Entitlements : {<<>>, <<Fixture.Eplist>>},
    MobileProvision : {<<>>, <<Fixture.Pprofile>>, ProfileInOutput},
    BundleID : {"", "com.acme.app"} ]

\* The input files that exist next to the source.
InputFiles(c, present) ==
  [q \in ({c.Entitlements, c.MobileProvision} \ {<<>>}) \cap present |->
     IF q = c.Entitlements THEN FileEntry("entitlementsInput")
     ELSE FileEntry("profileInput")]

\* The source itself: a package file, a bundle directory or some other file.
SourceEntries(c, S) ==
  IF c.SourceIPA = <<Fixture.Aapp>> THEN Bundle(S, <<Fixture.Aapp>>)
  ELSE (c.SourceIPA :> FileEntry("package"))

InitAt(start) ==
  \E c \in Configs, cb \in BOOLEAN, S \in Selections,
     present \in SUBSET {<<Fixture.Sipa>>, <<Fixture.Aapp>>, <<Fixture.Stxt>>,
                         <<Fixture.Eplist>>, <<Fixture.Pprofile>>, ProfileInOutput},
     payload \in {"one", "none", "two"}, previous \in BOOLEAN,
     stale \in BOOLEAN :
    /\ present \subseteq {c.SourceIPA, c.Entitlements, c.MobileProvision}
    /\ payload # "one" => (c.SourceIPA = <<Fixture.Sipa>> /\ S = {})
    /\ previous => Cardinality(S) <= MaxEntriesOverPrevious
    /\ stale => (Cardinality(S) <= MaxEntriesOverStale /\ ~previous)
    /\ c.MobileProvision = ProfileInOutput =>
         /\ Cardinality(S) <= MaxEntriesWithProfileInOutput
         /\ c.MobileProvision \in present
         /\ ~stale
    /\ (c.SourceIPA # <<Fixture.Sipa>> /\ c.SourceIPA # <<Fixture.Aapp>>) => S = {}
    /\ config = c
    /\ callback = cb
    /\ fs = (<<>> :> DirEntry) @@ InputFiles(c, present) @@
            (IF c.SourceIPA \in present THEN SourceEntries(c, S) ELSE <<>>) @@
            (IF ProfileInOutput \in present THEN (<<Name.Resigned>> :> DirEntry)
             ELSE <<>>) @@
            (IF previous THEN PreviousOutput ELSE <<>>) @@
            (IF stale THEN StaleTemp ELSE <<>>)
    /\ fs0 = fs
    /\ other = NoOther
    /\ gui = NoGUI
    /\ sc = NoSetup
    /\ zips = IF c.SourceIPA = <<Fixture.Sipa>> /\ c.SourceIPA \in present
              THEN (<<Fixture.Sipa>> :> CASE payload = "none" -> EmptyPackage
                                   [] payload = "two" -> PackageOfTwo
                                   [] OTHER -> PackageOf(S))
              ELSE <<>>
    /\ tmpDir = <<>>
    /\ appDir = <<>>
    /\ pc = start
    /\ appPath = <<>>
    /\ entitlementsPath = <<>>
    /\ components = <<>>
    /\ idx = 0
    /\ extraCounter = 0
    /\ err = <<>>
    /\ rec = FALSE
    /\ calls = <<>>
    /\ progress = <<>>
    /\ delivered = <<>>

\* Resign is about to be called.
Init == InitAt("validate")

\* ------------------------------------------------- leaving the body of Resign
\* logProgress without the test for a nil callback.
LogWithoutNilCheck(msgs) ==
  /\ progress' = progress \o msgs
  /\ delivered' = delivered \o msgs

\* logProgress: the message reaches the callback when there is one.
Log(msgs) ==
  /\ progress' = progress \o msgs
  /\ delivered' = IF callback THEN delivered \o msgs ELSE delivered

\* The callback panics on the last message of msgs: the deferred function of
\* Resign runs next, with the panic pending.
PanicZ(msgs, f, cs, z) ==
  /\ callback
  /\ Log(msgs)
  /\ fs' = f
  /\ zips' = z
  /\ calls' = calls \o cs
  /\ rec' = TRUE
  /\ pc' = "defer"
  /\ UNCHANGED << config, callback, fs0, gui, sc, other, tmpDir, appDir, locals, err >>

Panic(msgs, f, cs) == PanicZ(msgs, f, cs, zips)

\* A step returns the error e: Resign returns it, the deferred function runs.
FailZ(msgs, f, cs, e, z) ==
  /\ Log(msgs)
  /\ fs' = f
  /\ zips' = z
  /\ calls' = calls \o cs
  /\ err' = e
  /\ pc' = "defer"
  /\ UNCHANGED << config, callback, fs0, gui, sc, other, tmpDir, appDir, locals, rec >>

Fail(msgs, f, cs, e) == FailZ(msgs, f, cs, e, zips)

\* ---------------------------------------------------------------- validate
\* validate without the check of the entitlements path.
validateSkipsEntitlements(c, f) ==
  IF c.SourceIPA = <<>> THEN <<"source IPA path is required">>
  ELSE IF c.Certificate = "" THEN <<"certificate is required">>
  ELSE IF ~Exists(f, c.SourceIPA) THEN <<"source file does not exist">>
  ELSE IF c.MobileProvision # <<>> /\ ~Exists(f, c.MobileProvision)
    THEN <<"mobile provision file does not exist">>
  ELSE <<>>

\* The error validate returns, <<>> for nil.
validate(c, f) ==
  IF c.SourceIPA = <<>> THEN <<"source IPA path is required">>
  ELSE IF c.Certificate = "" THEN <<"certificate is required">>
  ELSE IF ~Exists(f, c.SourceIPA) THEN <<"source file does not exist">>
  ELSE IF c.MobileProvision # <<>> /\ ~Exists(f, c.MobileProvision)
    THEN <<"mobile provision file does not exist">>
  ELSE IF c.Entitlements # <<>> /\ ~Exists(f, c.Entitlements)
    THEN <<"entitlements file does not exist">>
  ELSE <<>>

\* Resign without the return after a failed validation.
ValidateContinues ==
  /\ pc = "validate"
  /\ err' = validate(config, fs)
  /\ pc' = "setup"
  /\ UNCHANGED << config, callback, fs0, gui, sc, other, tmpDir, appDir, fs, zips, locals,
                  rec, calls, progress, delivered >>

\* Resign, lines 63-66: a validation error is returned as it is.
Validate ==
  /\ pc = "validate"
  /\ IF validate(config, fs) # <<>>
     THEN Fail(<<>>, fs, <<>>, validate(config, fs))
     ELSE /\ pc' = "setup"
          /\ UNCHANGED << config, callback, fs0, gui, sc, other, tmpDir, appDir, fs, zips, locals,
                          err, rec, calls, progress, delivered >>

\* --------------------------------------------------------- setupDirectories
TmpPath == Join(Dir(config.SourceIPA), <<Name.tmp>>)

AppDirPath == Join(TmpPath, <<Name.app>>)

\* Resign, lines 68-73: the first progress message, then setupDirectories.
\* os.MkdirAll may fail after it has created dir/tmp.
SetupDirectories ==
  /\ pc = "setup"
  /\ LET m == <<Msg("Start (re)sign the app...")>>
     IN \/ Panic(m, fs, <<>>)
        \/ /\ CanMkdirAll(fs, AppDirPath)
           /\ Log(m)
           /\ fs' = MkdirAll(fs, AppDirPath)
           /\ tmpDir' = TmpPath
           /\ appDir' = AppDirPath
           /\ pc' = "extract"
           /\ UNCHANGED << config, callback, fs0, gui, sc, other, zips, locals, err, rec, calls >>
        \/ \E f \in {fs} \cup (IF CanMkdirAll(fs, TmpPath)
                               THEN {MkdirAll(fs, TmpPath)} ELSE {}) :
             Fail(m, f, <<>>, <<"failed to setup directories", "mkdir">>)

\* --------------------------------------------------------------- extractApp
PayloadDir == Join(appDir, <<Name.Payload>>)

\* extractApp, lines 172-183, on the file system f left by the extraction:
\* the error, or <<>> and then the entry chosen as application path.
PayloadError(f) ==
  IF ~IsDirAt(f, PayloadDir) THEN <<"failed to extract app", "readdir">>
  ELSE IF Len(ReadDir(f, PayloadDir)) = 0
    THEN <<"failed to extract app", "no app found in Payload directory">>
  ELSE <<>>

PayloadApp(f) == ReadDir(f, PayloadDir)[1]

\* The tail of extractApp once the tree is in place.
ExtractDone(m, f) ==
  IF PayloadError(f) # <<>>
  THEN Fail(m, f, <<>>, PayloadError(f))
  ELSE /\ Log(m)
       /\ fs' = f
       /\ appPath' = PayloadApp(f)
       /\ pc' = "provision"
       /\ UNCHANGED << config, callback, fs0, gui, sc, other, tmpDir, appDir, zips,
                       entitlementsPath, components, idx, extraCounter,
                       err, rec, calls >>

\* The archive behind the source file (zip.OpenReader).
SourceArchive == zips[config.SourceIPA]

\* unzip cannot open the archive, or it gets through every entry, or it stops
\* with an error after n of them.
ExtractIPA ==
  LET m == <<Msg("Extracting IPA file...")>>
      entries == SourceArchive
      stop == UnzipStop(fs, entries, appDir)
  IN \/ Panic(m, fs, <<>>)
     \/ Fail(m, fs, <<>>, <<"failed to extract app", "unzip">>)
     \/ /\ stop = Len(entries)
        /\ ExtractDone(m, unzip(fs, entries, appDir, Len(entries)))
     \/ \E n \in 1..stop :
          /\ n < Len(entries)
          /\ Fail(m, unzip(fs, entries, appDir, n), <<>>,
                  <<"failed to extract app", "unzip">>)

CopyTarget == Join(PayloadDir, <<Base(config.SourceIPA)>>)

\* The bare bundle is copied below a fresh Payload directory; copyDir either
\* gets through the whole walk or stops with an error after n paths.
ExtractBundle ==
  LET m == <<Msg("Copying .app file...")>>
      walked == Walk(fs, config.SourceIPA)
      made == MkdirAll(fs, PayloadDir)
      stop == CopyDirStop(made, walked, config.SourceIPA, CopyTarget)
  IN \/ Panic(m, fs, <<>>)
     \/ /\ CanMkdirAll(fs, PayloadDir)
        /\ stop = Len(walked)
        /\ ExtractDone(m, copyDir(made, walked, config.SourceIPA, CopyTarget,
                                  Len(walked)))
     \/ Fail(m, fs, <<>>, <<"failed to extract app", "mkdir">>)
     \/ /\ CanMkdirAll(fs, PayloadDir)
        /\ \E n \in 0..stop :
             /\ n < Len(walked)
             /\ Fail(m, copyDir(made, walked, config.SourceIPA, CopyTarget, n),
                     <<>>, <<"failed to extract app", "copy">>)

\* Resign, lines 75-79, with extractApp.
ExtractApp ==
  /\ pc = "extract"
  /\ LET ext == ToLower(Ext(config.SourceIPA))
     IN IF ext = Suffix.ipa THEN ExtractIPA
        ELSE IF ext = Suffix.app THEN ExtractBundle
        ELSE Fail(<<>>, fs, <<>>,
                  <<"failed to extract app", "unsupported file type">>)

\* ---------------------------------------------------- handleMobileProvision
EmbeddedPath == Join(appPath, <<Name.embedded>>)

\* A failing copyFile leaves the destination as it was, or created and
\* incomplete.
CopyFailures(f, src, dst) ==
  {f} \cup (IF CanCreate(f, dst) THEN {WriteFile(f, dst, "partial")} ELSE {})

\* The step in which a profile already present in the application is kept.
HandleMobileProvisionKeepsExisting ==
  /\ pc = "provision"
  /\ LET m == <<Msg("Copying provisioning profile into application payload")>>
     IN /\ Log(m)
        /\ fs' = IF Exists(fs, EmbeddedPath) \/ config.MobileProvision = <<>>
                 THEN fs
                 ELSE copyFile(fs, config.MobileProvision, EmbeddedPath)
        /\ pc' = "entitlements"
        /\ UNCHANGED << config, callback, fs0, gui, sc, other, tmpDir, appDir, zips,
                        locals, err, rec, calls >>

\* The step in which the configured profile is copied next to the working
\* directory instead of into the application root.
HandleMobileProvisionBesideApp ==
  /\ pc = "provision"
  /\ config.MobileProvision # <<>>
  /\ LET m == <<Msg("Copying provisioning profile into application payload")>>
     IN /\ Log(m)
        /\ fs' = copyFile(fs, config.MobileProvision, Join(tmpDir, <<Name.embedded>>))
        /\ pc' = "entitlements"
        /\ UNCHANGED << config, callback, fs0, gui, sc, other, tmpDir, appDir, zips,
                        locals, err, rec, calls >>

\* Resign, lines 81-84, with handleMobileProvision.
HandleMobileProvision ==
  /\ pc = "provision"
  /\ IF config.MobileProvision = <<>>
     THEN LET m == <<Msg("Sign process using existing provisioning profile from payload")>>
          IN \/ Panic(m, fs, <<>>)
             \/ /\ Log(m)
                /\ pc' = "entitlements"
                /\ UNCHANGED << config, callback, fs0, gui, sc, other, tmpDir, appDir, fs, zips,
                                locals, err, rec, calls >>
     ELSE LET m == <<Msg("Copying provisioning profile into application payload")>>
          IN \/ Panic(m, fs, <<>>)
             \/ /\ CanCopyFile(fs, config.MobileProvision, EmbeddedPath)
                /\ Log(m)
                /\ fs' = copyFile(fs, config.MobileProvision, EmbeddedPath)
                /\ pc' = "entitlements"
                /\ UNCHANGED << config, callback, fs0, gui, sc, other, tmpDir, appDir, zips,
                                locals, err, rec, calls >>
             \/ \E f \in CopyFailures(fs, config.MobileProvision, EmbeddedPath) :
                  Fail(m, f, <<>>, <<"failed to handle mobile provision", "copy">>)

\* ------------------------------------------------------ extractEntitlements
EntitlementsPlist == Join(tmpDir, <<Name.entitlements>>)

ProvisioningPlist == Join(tmpDir, <<Name.provisioning>>)

SecurityCms(ok) == Call("security cms -D -i", EmbeddedPath, "", <<>>, {}, ok)

PlistBuddyPrint(ok) ==
  Call("PlistBuddy -x -c Print:Entitlements", ProvisioningPlist, "", <<>>, {}, ok)

\* The branch of extractEntitlements for a configured entitlements file.
EntitlementsFromConfig ==
  LET m == <<Msg("Extract entitlements from mobileprovision")>>
      used == <<MsgP("Using provided entitlements: %s", config.Entitlements)>>
      copied == copyFile(fs, config.Entitlements, EntitlementsPlist)
  IN \/ Panic(m, fs, <<>>)
     \/ \E f \in CopyFailures(fs, config.Entitlements, EntitlementsPlist) :
          Fail(m, f, <<>>, <<"failed to extract entitlements", "copy">>)
     \/ /\ CanCopyFile(fs, config.Entitlements, EntitlementsPlist)
        /\ \/ Panic(m \o used, copied, <<>>)
           \/ /\ Log(m \o used)
              /\ fs' = copied
              /\ entitlementsPath' = EntitlementsPlist
              /\ pc' = "bundleid"
              /\ UNCHANGED << config, callback, fs0, gui, sc, other, tmpDir, appDir, zips, appPath,
                              components, idx, extraCounter, err, rec, calls >>

\* The branch that derives the entitlements from the embedded profile: the
\* profile is decoded, the result written to provisioning.plist, its
\* Entitlements key printed and written to entitlements.plist.
EntitlementsFromProfile ==
  LET m == <<Msg("Extract entitlements from mobileprovision")>>
      readable == Exists(fs, EmbeddedPath) /\ ~fs[EmbeddedPath].isDir
      plist == Decode(fs[EmbeddedPath].data)
      f1 == WriteFile(fs, ProvisioningPlist, plist)
      f2 == WriteFile(f1, EntitlementsPlist, PrintEntitlements(plist))
  IN \/ Panic(m, fs, <<>>)
     \/ Fail(m, fs, <<SecurityCms(FALSE)>>,
             <<"failed to extract entitlements", "failed to decode provisioning profile">>)
     \/ /\ readable
        /\ \/ Fail(m, fs, <<SecurityCms(TRUE)>>,
                   <<"failed to extract entitlements", "write">>)
           \/ /\ CanCreate(fs, ProvisioningPlist)
              /\ \/ Fail(m, f1, <<SecurityCms(TRUE), PlistBuddyPrint(FALSE)>>,
                         <<"failed to extract entitlements", "failed to extract entitlements">>)
                 \/ Fail(m, f1, <<SecurityCms(TRUE), PlistBuddyPrint(TRUE)>>,
                         <<"failed to extract entitlements", "write">>)
                 \/ /\ CanCreate(f1, EntitlementsPlist)
                    /\ Log(m)
                    /\ fs' = f2
                    /\ calls' = calls \o <<SecurityCms(TRUE), PlistBuddyPrint(TRUE)>>
                    /\ entitlementsPath' = EntitlementsPlist
                    /\ pc' = "bundleid"
                    /\ UNCHANGED << config, callback, fs0, gui, sc, other, tmpDir, appDir, zips,
                                    appPath, components, idx, extraCounter,
                                    err, rec >>

\* extractEntitlements in which a configured profile takes precedence over
\* the configured entitlements file.
ExtractEntitlementsProfileFirst ==
  /\ pc = "entitlements"
  /\ IF config.Entitlements # <<>> /\ config.MobileProvision = <<>>
     THEN EntitlementsFromConfig
     ELSE EntitlementsFromProfile

\* Resign, lines 86-90, with extractEntitlements.
ExtractEntitlements ==
  /\ pc = "entitlements"
  /\ IF config.Entitlements # <<>> THEN EntitlementsFromConfig
     ELSE EntitlementsFromProfile

\* ------------------------------------------------------------ handleBundleID
InfoPlist(component) == Join(component, <<Name.Info>>)

PlistBuddySet(component, id, ok) ==
  Call("PlistBuddy -c Set:CFBundleIdentifier", InfoPlist(component), id, <<>>, {}, ok)

\* handleBundleID in which the exit status of the tool is dropped.
HandleBundleIDIgnoresStatus ==
  /\ pc = "bundleid"
  /\ LET m == <<Msg("Changing bundle identifier with: " \o config.BundleID)>>
     IN IF config.BundleID = ""
        THEN /\ Log(<<Msg("Sign using existing bundle identifier from payload")>>)
             /\ pc' = "sign"
             /\ UNCHANGED << config, callback, fs0, gui, sc, other, tmpDir, appDir, fs, zips,
                             locals, err, rec, calls >>
        ELSE \E ok \in BOOLEAN :
               /\ Log(m)
               /\ calls' = Append(calls, PlistBuddySet(appPath, config.BundleID, ok))
               /\ pc' = "sign"
               /\ UNCHANGED << config, callback, fs0, gui, sc, other, tmpDir, appDir, fs, zips,
                               locals, err, rec >>

\* Resign, lines 92-95, with handleBundleID: the exit status of the tool is
\* the result.
HandleBundleID ==
  /\ pc = "bundleid"
  /\ IF config.BundleID = ""
     THEN LET m == <<Msg("Sign using existing bundle identifier from payload")>>
          IN \/ Panic(m, fs, <<>>)
             \/ /\ Log(m)
                /\ pc' = "sign"
                /\ UNCHANGED << config, callback, fs0, gui, sc, other, tmpDir, appDir, fs, zips,
                                locals, err, rec, calls >>
     ELSE LET m == <<Msg("Changing bundle identifier with: " \o config.BundleID)>>
          IN \/ Panic(m, fs, <<>>)
             \/ Fail(m, fs, <<PlistBuddySet(appPath, config.BundleID, FALSE)>>,
                     <<"failed to handle bundle ID", "exit status">>)
             \/ /\ Log(m)
                /\ calls' = Append(calls, PlistBuddySet(appPath, config.BundleID, TRUE))
                /\ pc' = "sign"
                /\ UNCHANGED << config, callback, fs0, gui, sc, other, tmpDir, appDir, fs, zips,
                                locals, err, rec >>

\* ------------------------------------------------------------ signComponents
\* codesign started without the flag that replaces an existing signature.
CodesignWithoutForce(component, ok) ==
  Call("codesign", component, config.Certificate, entitlementsPath,
       {"--continue", "--generate-entitlement-der"}, ok)

Codesign(component, ok) ==
  Call("codesign", component, config.Certificate, entitlementsPath, CodesignFlags, ok)

SignError == <<"failed to sign components", "failed to sign", "codesign failed">>

\* The extension identifier with a counter that starts at one.
ExtensionBundleIDFromOne(bundleID, counter) ==
  bundleID \o ".extra" \o ToString(counter + 1)

\* fmt.Sprintf("%s.extra%d", r.config.BundleID, extraCounter)
ExtensionBundleID(bundleID, counter) == bundleID \o ".extra" \o ToString(counter)

\* signComponents, lines 256-265: the components are discovered; an entry the
\* walk cannot read makes findComponents return the error.
StartSigning ==
  /\ pc = "sign"
  /\ LET m1 == <<Msg("Get list of components and sign with certificate: " \o config.Certificate)>>
         m2 == <<Msg("Sign plugins, frameworks, dylibs")>>
     IN \/ Panic(m1, fs, <<>>)
        \/ Fail(m1, fs, <<>>, <<"failed to sign components", "walk">>)
        \/ Panic(m1 \o m2, fs, <<>>)
        \/ /\ Exists(fs, appPath)
           /\ Log(m1 \o m2)
           /\ components' = findComponents(fs, appPath)
           /\ idx' = 1
           /\ extraCounter' = 0
           /\ pc' = "signInner"
           /\ UNCHANGED << config, callback, fs0, gui, sc, other, tmpDir, appDir, fs, zips, appPath,
                           entitlementsPath, err, rec, calls >>

\* The extension step in which a failed set-identifier call is returned as
\* an error.
SignExtensionIDFatal(component) ==
  LET newBundleID == ExtensionBundleID(config.BundleID, extraCounter)
      m == <<Msg("Changing .appex bundle identifier with: " \o newBundleID)>>
  IN \/ Fail(m, fs, <<PlistBuddySet(component, newBundleID, FALSE)>>, SignError)
     \/ /\ Log(m)
        /\ calls' = calls \o <<PlistBuddySet(component, newBundleID, TRUE),
                               Codesign(component, TRUE)>>
        /\ extraCounter' = extraCounter + 1
        /\ idx' = idx + 1
        /\ UNCHANGED << config, callback, fs0, gui, sc, other, tmpDir, appDir, fs, zips, pc,
                        appPath, entitlementsPath, components, err, rec >>

\* The extension step in which the extension is signed before its identifier
\* is set.
SignExtensionSignsFirst(component) ==
  LET newBundleID == ExtensionBundleID(config.BundleID, extraCounter)
      m == <<Msg("Changing .appex bundle identifier with: " \o newBundleID)>>
  IN \/ Fail(m, fs, <<Codesign(component, FALSE)>>, SignError)
     \/ /\ Log(m)
        /\ calls' = calls \o <<Codesign(component, TRUE),
                               PlistBuddySet(component, newBundleID, TRUE)>>
        /\ extraCounter' = extraCounter + 1
        /\ idx' = idx + 1
        /\ UNCHANGED << config, callback, fs0, gui, sc, other, tmpDir, appDir, fs, zips, pc,
                        appPath, entitlementsPath, components, err, rec >>

\* The step of the first loop for an extension when a bundle ID is
\* configured: the identifier is set (a failure is only logged), the counter
\* advances, the extension is signed.
SignExtensionWithID(component) ==
  LET newBundleID == ExtensionBundleID(config.BundleID, extraCounter)
      m == <<Msg("Changing .appex bundle identifier with: " \o newBundleID)>>
      w == <<MsgP("Warning: Failed to change bundle ID for %s: %v", component)>>
  IN \/ Panic(m, fs, <<>>)
     \/ Panic(m \o w, fs, <<PlistBuddySet(component, newBundleID, FALSE)>>)
     \/ \E setOk \in BOOLEAN :
          LET set == <<PlistBuddySet(component, newBundleID, setOk)>>
              ms == IF setOk THEN m ELSE m \o w
          IN \/ Fail(ms, fs, set \o <<Codesign(component, FALSE)>>, SignError)
             \/ /\ Log(ms)
                /\ calls' = calls \o set \o <<Codesign(component, TRUE)>>
                /\ extraCounter' = extraCounter + 1
                /\ idx' = idx + 1
                /\ UNCHANGED << config, callback, fs0, gui, sc, other, tmpDir, appDir, fs, zips, pc,
                                appPath, entitlementsPath, components, err, rec >>

\* The signing step in which the result of codesign is dropped.
SignOnlyIgnoresStatus(component) ==
  \E ok \in BOOLEAN :
    /\ calls' = Append(calls, Codesign(component, ok))
    /\ idx' = idx + 1
    /\ UNCHANGED << config, callback, fs0, gui, sc, other, tmpDir, appDir, fs, zips, pc, appPath,
                    entitlementsPath, components, extraCounter, err, rec,
                    progress, delivered >>

\* The step of either loop that only signs the component.
SignOnly(component) ==
  \/ Fail(<<>>, fs, <<Codesign(component, FALSE)>>, SignError)
  \/ /\ calls' = Append(calls, Codesign(component, TRUE))
     /\ idx' = idx + 1
     /\ UNCHANGED << config, callback, fs0, gui, sc, other, tmpDir, appDir, fs, zips, pc, appPath,
                     entitlementsPath, components, extraCounter, err, rec,
                     progress, delivered >>

\* A loop step that signs the component its loop should pass over.
SkipComponentSigns == SignOnly(components[idx])

\* The step of a loop that passes over a component.
SkipComponent ==
  /\ idx' = idx + 1
  /\ UNCHANGED << config, callback, fs0, gui, sc, other, tmpDir, appDir, fs, zips, pc, appPath,
                  entitlementsPath, components, extraCounter, err, rec, calls,
                  progress, delivered >>

\* The first loop without the case for .dylib.
SignInnerWithoutDylib ==
  /\ pc = "signInner"
  /\ idx <= Len(components)
  /\ LET component == components[idx]
         ext == Ext(component)
     IN IF ext = Suffix.appex
        THEN IF config.BundleID # "" THEN SignExtensionWithID(component)
             ELSE SignOnly(component)
        ELSE IF ext = Suffix.framework THEN SignOnly(component)
        ELSE SkipComponent

\* signComponents, lines 266-288: one iteration of the first loop.
SignInner ==
  /\ pc = "signInner"
  /\ idx <= Len(components)
  /\ LET component == components[idx]
         ext == Ext(component)
     IN IF ext = Suffix.appex
        THEN IF config.BundleID # "" THEN SignExtensionWithID(component)
             ELSE SignOnly(component)
        ELSE IF ext = Suffix.framework \/ ext = Suffix.dylib THEN SignOnly(component)
        ELSE SkipComponent

\* signComponents, line 290: between the loops.
SignAppHeader ==
  /\ pc = "signInner"
  /\ idx > Len(components)
  /\ LET m == <<Msg("Sign app")>>
     IN \/ Panic(m, fs, <<>>)
        \/ /\ Log(m)
           /\ idx' = 1
           /\ pc' = "signApps"
           /\ UNCHANGED << config, callback, fs0, gui, sc, other, tmpDir, appDir, fs, zips, appPath,
                           entitlementsPath, components, extraCounter, err,
                           rec, calls >>

\* signComponents, lines 291-297: one iteration of the second loop.
SignApps ==
  /\ pc = "signApps"
  /\ idx <= Len(components)
  /\ IF Ext(components[idx]) = Suffix.app THEN SignOnly(components[idx])
     ELSE SkipComponent

\* signComponents, line 299: it returns nil and Resign goes on.
SignDone ==
  /\ pc = "signApps"
  /\ idx > Len(components)
  /\ pc' = "package"
  /\ UNCHANGED << config, callback, fs0, gui, sc, other, tmpDir, appDir, fs, zips, locals, err, rec,
                  calls, progress, delivered >>

\* --------------------------------------------------------- createResignedIPA
ResignedDir == Join(Dir(config.SourceIPA), <<Name.Resigned>>)

\* The archive name without the bundle extension taken off.
OutputNameKeepsExt(appName) == appName \o Suffix.ipa

\* The name of the output archive: the bundle name with its extension
\* replaced by ".ipa".
OutputName(appName) == TrimSuffix(appName, ExtOfName(appName)) \o Suffix.ipa

\* The packaging error without the annotation of Resign.
PackageErrorBare == <<"io">>

PackageError == <<"failed to create resigned IPA", "io">>

\* The archive branch: zipDirectory creates the target and adds the walked
\* entries of the working directory; an error leaves the archive incomplete.
PackageIPA(f0, z0) ==
  LET filename == OutputName(Base(appPath))
      outputPath == Join(ResignedDir, <<filename>>)
      m1 == <<MsgP("Creating the signed ipa: %s", <<filename>>)>>
      m2 == <<MsgP("Resigned IPA saved to: %s", outputPath)>>
      f1 == WriteFile(f0, outputPath, "package")
      total == Len(Walk(f0, appDir))
  IN \/ PanicZ(m1, f0, <<>>, z0)
     \/ FailZ(m1, f0, <<>>, PackageError, z0)
     \/ \E n \in 0..total :
          /\ n < total \/ ~Exists(f0, appDir)
          /\ FailZ(m1, f1, <<>>, PackageError,
                   z0 @@ (outputPath :> zipDirectory(f0, appDir, n)))
     \/ /\ Exists(f0, appDir)
        /\ PanicZ(m1 \o m2, f1, <<>>,
                  z0 @@ (outputPath :> zipDirectory(f0, appDir, total)))
     \/ /\ Exists(f0, appDir)
        /\ Log(m1 \o m2)
        /\ fs' = f1
        /\ zips' = z0 @@ (outputPath :> zipDirectory(f0, appDir, total))
        /\ pc' = "finish"
        /\ UNCHANGED << config, callback, fs0, gui, sc, other, tmpDir, appDir, locals, err, rec,
                        calls >>

\* The bare-bundle branch: the signed bundle is copied to the output
\* directory.
PackageBundle(f0, z0) ==
  LET outputPath == Join(ResignedDir, <<Base(appPath)>>)
      m1 == <<Msg("Moving resigned .app file...")>>
      m2 == <<MsgP("Resigned .app saved to: %s", outputPath)>>
      walked == Walk(f0, appPath)
      stop == CopyDirStop(f0, walked, appPath, outputPath)
      f1 == copyDir(f0, walked, appPath, outputPath, Len(walked))
  IN \/ PanicZ(m1, f0, <<>>, z0)
     \/ \E n \in 0..stop :
          /\ n < Len(walked) \/ ~Exists(f0, appPath)
          /\ FailZ(m1, copyDir(f0, walked, appPath, outputPath, n), <<>>,
                   PackageError, z0)
     \/ /\ stop = Len(walked)
        /\ Exists(f0, appPath)
        /\ \/ PanicZ(m1 \o m2, f1, <<>>, z0)
           \/ /\ Log(m1 \o m2)
              /\ fs' = f1
              /\ zips' = z0
              /\ pc' = "finish"
              /\ UNCHANGED << config, callback, fs0, gui, sc, other, tmpDir, appDir, locals, err,
                              rec, calls >>

\* Resign, lines 102-105, with createResignedIPA: the output directory is
\* removed and made again, then filled.
CreateResignedIPA ==
  /\ pc = "package"
  /\ LET f0 == MkdirAll(RemoveAll(fs, ResignedDir), ResignedDir)
         z0 == [q \in {x \in DOMAIN zips : ~IsPrefix(ResignedDir, x)} |-> zips[q]]
         ext == ToLower(Ext(config.SourceIPA))
     IN \/ FailZ(<<>>, RemoveAll(fs, ResignedDir), <<>>, PackageError, z0)
        \/ /\ ext = Suffix.ipa
           /\ PackageIPA(f0, z0)
        \/ /\ ext = Suffix.app
           /\ PackageBundle(f0, z0)

\* Resign returning nil without its final message.
FinishSilent ==
  /\ pc = "finish"
  /\ err' = <<>>
  /\ pc' = "defer"
  /\ UNCHANGED << config, callback, fs0, gui, sc, other, tmpDir, appDir, fs, zips, locals,
                  rec, calls, progress, delivered >>

\* Resign, lines 107-108.
Finish ==
  /\ pc = "finish"
  /\ LET m == <<Msg("XReSign FINISHED")>>
     IN \/ Panic(m, fs, <<>>)
        \/ /\ Log(m)
           /\ err' = <<>>
           /\ pc' = "defer"
           /\ UNCHANGED << config, callback, fs0, gui, sc, other, tmpDir, appDir, fs, zips, locals,
                           rec, calls >>

\* ------------------------------------------------- the deferred function
\* A cleanup that runs only when the run succeeded.
CleanupOnSuccess(f) == IF tmpDir # <<>> /\ err = <<>> THEN RemoveAll(f, tmpDir) ELSE f

\* A cleanup that removes the output directory along with the temp directory.
CleanupWithOutput(f) ==
  IF tmpDir # <<>> THEN RemoveAll(RemoveAll(f, tmpDir), ResignedDir) ELSE f

\* The cleanup of the deferred function, lines 57-60.
Cleanup(f) == IF tmpDir # <<>> THEN RemoveAll(f, tmpDir) ELSE f

PanicError == <<"panic occurred">>

\* Resign, lines 52-61.  A pending panic is recovered, turned into the
\* result and logged; the logging calls the callback again, and a panic
\* raised there leaves the deferred function before the cleanup and reaches
\* the caller of Resign.  Then the temp directory is removed.
Deferred ==
  /\ pc = "defer"
  /\ IF rec
     THEN LET m == <<Msg("ERROR: panic occurred")>>
          IN \/ /\ callback
                /\ Log(m)
                /\ err' = PanicError
                /\ pc' = "crashed"
                /\ UNCHANGED << config, callback, fs0, gui, sc, other, tmpDir, appDir, fs, zips,
                                locals, rec, calls >>
             \/ /\ Log(m)
                /\ err' = PanicError
                /\ rec' = FALSE
                /\ fs' = Cleanup(fs)
                /\ pc' = "returned"
                /\ UNCHANGED << config, callback, fs0, gui, sc, other, tmpDir, appDir, zips, locals,
                                calls >>
     ELSE /\ fs' = Cleanup(fs)
          /\ pc' = "returned"
          /\ UNCHANGED << config, callback, fs0, gui, sc, other, tmpDir, appDir, zips, locals, err,
                          rec, calls, progress, delivered >>

\* ------------------------------------------------------------ specification
Next ==
  \/ Validate
  \/ SetupDirectories
  \/ ExtractApp
  \/ HandleMobileProvision
  \/ ExtractEntitlements
  \/ HandleBundleID
  \/ StartSigning
  \/ SignInner
  \/ SignAppHeader
  \/ SignApps
  \/ SignDone
  \/ CreateResignedIPA
  \/ Finish
  \/ Deferred

Spec == Init /\ [][Next]_vars

\* Resign is straight-line code on one goroutine: when every tool it starts
\* and every file operation returns, the step it is in is completed.
\* The largest selection tried in the runs followed to their end.
MaxEntriesLive == 1

\* The runs followed to their end: a Config that names the certificate and a
\* package that exists, with or without a callback.
InitLive ==
  /\ Init
  /\ config = [SourceIPA |-> <<Fixture.Sipa>>, Certificate |-> "Test Cert",
               Entitlements |-> <<>>, MobileProvision |-> <<>>, BundleID |-> ""]
  /\ DOMAIN fs = {<<>>, config.SourceIPA}
  /\ Len(SourceArchive) <= 3 + MaxEntriesLive

SpecLive == InitLive /\ [][Next]_vars /\ WF_vars(Next)

\* ===================================================== the archive functions
\* unzip and zipDirectory on their own: an archive is extracted into the
\* working directory, the directory is archived again and that archive is
\* extracted into a second directory.
MaxZipEntries == 2

\* The entries an archive is made of: a top-level name, a name below it and a
\* name that starts with "..", each as a directory or as a file.
ZipEntries ==
  { [name |-> n, isDir |-> d, data |-> IF d THEN "-" ELSE c] :
      n \in {<<Fixture.X>>, <<Fixture.X, Fixture.Y>>, <<Name.dotdot, Fixture.Y>>}, d \in BOOLEAN, c \in {"a", "b"} }

RECURSIVE SeqsUpTo(_, _)
SeqsUpTo(S, n) ==
  IF n = 0 THEN {<<>>}
  ELSE SeqsUpTo(S, n - 1) \cup
       {Append(s, e) : s \in {t \in SeqsUpTo(S, n - 1) : Len(t) = n - 1}, e \in S}

\* The arguments the functions are called with: the archive unzip reads, its
\* destination, the archive zipDirectory writes and the destination that
\* archive is extracted to.
ZipPaths ==
  [src |-> <<Fixture.Sipa>>, dest |-> <<Name.tmp, Name.app>>, target |-> <<Fixture.OldIpa>>,
   again |-> <<Name.tmp, Fixture.Again>>]

\* The variables the functions do not use.
HarnessFrame ==
  << config, callback, fs0, gui, sc, other, tmpDir, appDir, locals, rec, calls,
     progress, delivered >>

HarnessConfig ==
  [SourceIPA |-> <<Fixture.Sipa>>, Certificate |-> "Test Cert",
   Entitlements |-> <<>>, MobileProvision |-> <<>>, BundleID |-> ""]

HarnessIdle ==
  /\ callback = FALSE
  /\ gui = NoGUI
  /\ sc = NoSetup
  /\ other = NoOther
  /\ tmpDir = <<>>
  /\ appDir = <<>>
  /\ appPath = <<>>
  /\ entitlementsPath = <<>>
  /\ components = <<>>
  /\ idx = 0
  /\ extraCounter = 0
  /\ err = <<>>
  /\ rec = FALSE
  /\ calls = <<>>
  /\ progress = <<>>
  /\ delivered = <<>>

\* The archive file next to an existing, empty working directory.
ZipInit ==
  \E a \in SeqsUpTo(ZipEntries, MaxZipEntries) :
    /\ HarnessIdle
    /\ config = HarnessConfig
    /\ fs = (<<>> :> DirEntry) @@ (ZipPaths.src :> FileEntry("package")) @@
            (<<Name.tmp>> :> DirEntry) @@ (ZipPaths.dest :> DirEntry)
    /\ fs0 = fs
    /\ zips = (ZipPaths.src :> a)
    /\ pc = "unzip"

\* unzip(ZipPaths.src, ZipPaths.dest): it returns nil after the last entry or the error
\* of the first entry it cannot write.
UnzipFirst ==
  /\ pc = "unzip"
  /\ LET entries == zips[ZipPaths.src]
         stop == UnzipStop(fs, entries, ZipPaths.dest)
     IN /\ fs' = unzip(fs, entries, ZipPaths.dest, stop)
        /\ IF stop = Len(entries)
           THEN pc' = "zipDirectory" /\ err' = <<>>
           ELSE pc' = "failed" /\ err' = <<"unzip">>
  /\ UNCHANGED zips
  /\ UNCHANGED HarnessFrame

\* zipDirectory(ZipPaths.dest, ZipPaths.target) on the unmodified directory.
ZipBack ==
  /\ pc = "zipDirectory"
  /\ fs' = WriteFile(fs, ZipPaths.target, "package")
  /\ zips' = zips @@ (ZipPaths.target :> zipDirectory(fs, ZipPaths.dest, Len(Walk(fs, ZipPaths.dest))))
  /\ pc' = "unzipAgain"
  /\ UNCHANGED err
  /\ UNCHANGED HarnessFrame

\* unzip(ZipPaths.target, ZipPaths.again).
UnzipAgain ==
  /\ pc = "unzipAgain"
  /\ LET entries == zips[ZipPaths.target]
         stop == UnzipStop(fs, entries, ZipPaths.again)
     IN /\ fs' = unzip(fs, entries, ZipPaths.again, stop)
        /\ IF stop = Len(entries)
           THEN pc' = "done" /\ err' = <<>>
           ELSE pc' = "failed" /\ err' = <<"unzip again">>
  /\ UNCHANGED zips
  /\ UNCHANGED HarnessFrame

ZipNext == UnzipFirst \/ ZipBack \/ UnzipAgain

SpecZip == ZipInit /\ [][ZipNext]_vars

\* ================================================ bundle identifier checking
\* The bundle identifier check of the command line and of the window, on
\* identifiers written as sequences of characters.
MaxIdLen == 3

BundleIDs == SeqsUpTo({"a", "B", "1", "-", ".", "_"}, MaxIdLen)

\* One round of the loop of isValidBundleID: a character other than the dot
\* has to be a letter, a digit or the hyphen.
IsIdChar(ch) ==
  \/ (Code[ch] >= Code["a"] /\ Code[ch] <= Code["z"])
  \/ (Code[ch] >= Code["A"] /\ Code[ch] <= Code["Z"])
  \/ (Code[ch] >= Code["0"] /\ Code[ch] <= Code["9"])
  \/ ch = "-"

isValidBundleID(bundleID) ==
  IF Len(bundleID) = 0 THEN FALSE
  ELSE /\ \A i \in 1..Len(bundleID) : bundleID[i] = "." \/ IsIdChar(bundleID[i])
       /\ \E i \in 1..Len(bundleID) : bundleID[i] = "."

BundleIDError == <<"invalid bundle ID format">>

BundleIDInit ==
  \E id \in BundleIDs :
    /\ HarnessIdle
    /\ config = [HarnessConfig EXCEPT !.BundleID = id]
    /\ fs = (<<>> :> DirEntry)
    /\ fs0 = fs
    /\ zips = <<>>
    /\ pc = "input"

\* validateCLIArguments, the bundle identifier part.
ValidateCLIBundleID ==
  /\ pc = "input"
  /\ LET bundleID == config.BundleID
     IN err' = IF bundleID # <<>> /\ (Len(bundleID) < 3 \/ ~isValidBundleID(bundleID))
               THEN BundleIDError ELSE <<>>
  /\ pc' = "checked by CLI"
  /\ UNCHANGED << fs, zips >>
  /\ UNCHANGED HarnessFrame

\* validateGUIInputs, the bundle identifier part.
ValidateGUIBundleID ==
  /\ pc = "input"
  /\ LET bundleID == config.BundleID
     IN err' = IF bundleID # <<>> /\ ~isValidBundleID(bundleID)
               THEN BundleIDError ELSE <<>>
  /\ pc' = "checked by GUI"
  /\ UNCHANGED << fs, zips >>
  /\ UNCHANGED HarnessFrame

BundleIDNext == ValidateCLIBundleID \/ ValidateGUIBundleID

SpecBundleID == BundleIDInit /\ [][BundleIDNext]_vars

\* ======================================================= the copy functions
\* copyFile and copyDir on their own.
\* What may be at a path before the call: nothing, a directory or a file.
PathStates == {"absent", "dir", "", "a", "ab", "b"}

At(p, st) ==
  IF st = "absent" THEN <<>>
  ELSE IF st = "dir" THEN (p :> DirEntry)
  ELSE (p :> FileEntry(st))

\* The arguments of copyFile (src, dst) and of copyDir (treeSrc, treeDst).
CopyPaths ==
  [src |-> <<Fixture.X>>, dst |-> <<Fixture.Keep, Fixture.Y>>, treeSrc |-> <<Fixture.X>>,
   treeDst |-> <<Fixture.Again>>]

\* A source and a destination for copyFile; the destination's directory may
\* be missing or be a regular file.
CopyFileInit ==
  \E s \in PathStates, d \in PathStates, parent \in {"absent", "dir", "b"} :
    /\ parent # "dir" => d = "absent"
    /\ HarnessIdle
    /\ config = HarnessConfig
    /\ fs = (<<>> :> DirEntry) @@ At(CopyPaths.src, s) @@ At(<<Fixture.Keep>>, parent) @@
            At(CopyPaths.dst, d)
    /\ fs0 = fs
    /\ zips = <<>>
    /\ pc = "copyFile"

\* copyFile(CopyPaths.src, CopyPaths.dst).  os.Open fails on a missing source and
\* os.Create on a destination it cannot make; a source that is a directory
\* is opened, the destination created, and the read fails.
CopyFileCall ==
  /\ pc = "copyFile"
  /\ IF CanCopyFile(fs, CopyPaths.src, CopyPaths.dst)
     THEN fs' = copyFile(fs, CopyPaths.src, CopyPaths.dst) /\ err' = <<>>
     ELSE /\ err' = <<"copyFile">>
          /\ fs' = IF IsDirAt(fs, CopyPaths.src) /\ CanCreate(fs, CopyPaths.dst)
                   THEN WriteFile(fs, CopyPaths.dst, "")
                   ELSE fs
  /\ pc' = "copied file"
  /\ UNCHANGED zips
  /\ UNCHANGED HarnessFrame

\* A source tree and a destination for copyDir: the source holds at most a
\* file, a directory and a file in that directory; the destination is
\* missing, empty, or holds an entry where one is to be copied.
CopyDirInit ==
  \E y \in {"absent", "a", "b"}, k \in {"absent", "dir"}, ky \in {"absent", "a"},
     d \in {"absent", "dir"}, dy \in {"absent", "dir", "ab"}, dk \in {"absent", "b"} :
    /\ k = "absent" => ky = "absent"
    /\ d = "absent" => (dy = "absent" /\ dk = "absent")
    /\ HarnessIdle
    /\ config = HarnessConfig
    /\ fs = (<<>> :> DirEntry) @@ (CopyPaths.treeSrc :> DirEntry) @@
            At(CopyPaths.treeSrc \o <<Fixture.Y>>, y) @@ At(CopyPaths.treeSrc \o <<Fixture.Keep>>, k) @@
            At(CopyPaths.treeSrc \o <<Fixture.Keep, Fixture.Y>>, ky) @@
            At(CopyPaths.treeDst, d) @@ At(CopyPaths.treeDst \o <<Fixture.Y>>, dy) @@ At(CopyPaths.treeDst \o <<Fixture.Keep>>, dk)
    /\ fs0 = fs
    /\ zips = <<>>
    /\ pc = "copyDir"

\* copyDir(CopyPaths.treeSrc, CopyPaths.treeDst): the walk stops at the first path whose copy
\* fails.
CopyDirCall ==
  /\ pc = "copyDir"
  /\ LET walked == Walk(fs, CopyPaths.treeSrc)
         stop == CopyDirStop(fs, walked, CopyPaths.treeSrc, CopyPaths.treeDst)
     IN /\ fs' = copyDir(fs, walked, CopyPaths.treeSrc, CopyPaths.treeDst, stop)
        /\ err' = IF stop = Len(walked) THEN <<>> ELSE <<"copyDir">>
  /\ pc' = "copied dir"
  /\ UNCHANGED zips
  /\ UNCHANGED HarnessFrame

CopyInit == CopyFileInit \/ CopyDirInit

CopyNext == CopyFileCall \/ CopyDirCall

SpecCopy == CopyInit /\ [][CopyNext]_vars

\* The largest selection tried with two runs.
MaxEntriesOfTwo == 1

\* ================================================= two runs in one directory
\* A second Resigner, built from an equal Config, runs Resign while the first
\* one does: both work on the same file system.  The second run is followed
\* step by step as Resign calls them; it has no callback, and a step of it
\* fails when the file system makes it fail or when a tool or the system does.
\* Resign, lines 68-73, with setupDirectories.
OtherSetupDirectories ==
  /\ other.pc = "setup"
  /\ \/ /\ CanMkdirAll(fs, AppDirPath)
        /\ fs' = MkdirAll(fs, AppDirPath)
        /\ other' = [other EXCEPT !.pc = "extract", !.tmpDir = TmpPath,
                                  !.appDir = AppDirPath]
     \/ /\ fs' = fs
        /\ other' = [other EXCEPT !.pc = "defer",
                                  !.err = <<"failed to setup directories", "mkdir">>]
  /\ UNCHANGED << config, callback, fs0, gui, sc, tmpDir, appDir, zips, pc, locals, err,
                  rec, calls, progress, delivered >>

\* Resign, lines 75-79, with extractApp on a package: the archive is
\* extracted whole, or up to the entry that cannot be written, and the first
\* entry of Payload becomes the application path.
OtherExtractApp ==
  /\ other.pc = "extract"
  /\ LET OtherPayloadDir == Join(other.appDir, <<Name.Payload>>)
         entries == SourceArchive
         stop == UnzipStop(fs, entries, other.appDir)
         f == unzip(fs, entries, other.appDir, stop)
         found == IsDirAt(f, OtherPayloadDir) /\ ReadDir(f, OtherPayloadDir) # <<>>
     IN /\ fs' = f
        /\ \/ /\ stop = Len(entries)
              /\ found
              /\ other' = [other EXCEPT !.pc = "entitlements",
                                        !.appPath = ReadDir(f, OtherPayloadDir)[1]]
           \/ /\ stop < Len(entries) \/ ~found
              /\ other' = [other EXCEPT !.pc = "defer",
                                        !.err = <<"failed to extract app", "unzip">>]
  /\ UNCHANGED << config, callback, fs0, gui, sc, tmpDir, appDir, zips, pc, locals, err,
                  rec, calls, progress, delivered >>

\* Resign, lines 81-90, with handleMobileProvision and extractEntitlements
\* for a Config that names neither a profile nor an entitlements file: the
\* embedded profile is decoded into provisioning.plist and its entitlements
\* are written to entitlements.plist.
OtherExtractEntitlements ==
  /\ other.pc = "entitlements"
  /\ LET embedded == Join(other.appPath, <<Name.embedded>>)
         provisioning == Join(other.tmpDir, <<Name.provisioning>>)
         entitlements == Join(other.tmpDir, <<Name.entitlements>>)
         readable == Exists(fs, embedded) /\ ~fs[embedded].isDir
         plist == Decode(fs[embedded].data)
         f1 == WriteFile(fs, provisioning, plist)
         f2 == WriteFile(f1, entitlements, PrintEntitlements(plist))
     IN \/ /\ readable
           /\ CanCreate(fs, provisioning)
           /\ CanCreate(f1, entitlements)
           /\ fs' = f2
           /\ other' = [other EXCEPT !.pc = "sign"]
        \/ /\ fs' = fs
           /\ other' = [other EXCEPT !.pc = "defer",
                                     !.err = <<"failed to extract entitlements", "tool">>]
  /\ UNCHANGED << config, callback, fs0, gui, sc, tmpDir, appDir, zips, pc, locals, err,
                  rec, calls, progress, delivered >>

\* Resign, lines 92-100, with handleBundleID and signComponents: the tools
\* work on the application in place; findComponents fails on an application
\* path that is gone.
OtherSignComponents ==
  /\ other.pc = "sign"
  /\ \/ /\ Exists(fs, other.appPath)
        /\ other' = [other EXCEPT !.pc = "package"]
     \/ other' = [other EXCEPT !.pc = "defer",
                               !.err = <<"failed to sign components", "tool">>]
  /\ UNCHANGED << config, callback, fs0, gui, sc, tmpDir, appDir, fs, zips, pc, locals,
                  err, rec, calls, progress, delivered >>

\* Resign, lines 102-108, with createResignedIPA on a package: the output
\* directory is removed and made again and the working directory is zipped
\* into it; the walk fails on a working directory that is gone.
OtherCreateResignedIPA ==
  /\ other.pc = "package"
  /\ LET f0 == MkdirAll(RemoveAll(fs, ResignedDir), ResignedDir)
         z0 == [q \in {x \in DOMAIN zips : ~IsPrefix(ResignedDir, x)} |-> zips[q]]
         outputPath == Join(ResignedDir, <<OutputName(Base(other.appPath))>>)
         total == Len(Walk(f0, other.appDir))
     IN /\ fs' = WriteFile(f0, outputPath, "package")
        /\ \/ /\ Exists(f0, other.appDir)
              /\ zips' = z0 @@ (outputPath :> zipDirectory(f0, other.appDir, total))
              /\ other' = [other EXCEPT !.pc = "defer"]
           \/ /\ zips' = z0 @@ (outputPath :> <<>>)
              /\ other' = [other EXCEPT !.pc = "defer", !.err = PackageError]
  /\ UNCHANGED << config, callback, fs0, gui, sc, tmpDir, appDir, pc, locals, err, rec,
                  calls, progress, delivered >>

\* The deferred cleanup that leaves the temp directory alone until the first
\* run has ended.
OtherCleanupWaits(f) ==
  IF other.tmpDir # <<>> /\ pc \in {"returned", "crashed"}
  THEN RemoveAll(f, other.tmpDir) ELSE f

\* Resign, lines 57-60, in the second run.
OtherCleanup(f) == IF other.tmpDir # <<>> THEN RemoveAll(f, other.tmpDir) ELSE f

\* Resign, lines 52-61, in the second run: there is no callback that could
\* panic.
OtherDeferred ==
  /\ other.pc = "defer"
  /\ fs' = OtherCleanup(fs)
  /\ other' = [other EXCEPT !.pc = "returned",
                            !.at = IF other.tmpDir # <<>> THEN pc ELSE "none"]
  /\ UNCHANGED << config, callback, fs0, gui, sc, tmpDir, appDir, zips, pc, locals, err,
                  rec, calls, progress, delivered >>

\* Both runs are about to start on a package of one bundle, with a Config
\* that passed validate.
InitTwo ==
  /\ config = HarnessConfig
  /\ callback = FALSE
  /\ gui = NoGUI
  /\ sc = NoSetup
  /\ other = [NoOther EXCEPT !.pc = "setup"]
  /\ \E S \in Selections :
       /\ Cardinality(S) <= MaxEntriesOfTwo
       /\ fs = (<<>> :> DirEntry) @@ (<<Fixture.Sipa>> :> FileEntry("package"))
       /\ zips = (<<Fixture.Sipa>> :> PackageOf(S))
  /\ fs0 = fs
  /\ pc = "validate"
  /\ tmpDir = <<>>
  /\ appDir = <<>>
  /\ appPath = <<>>
  /\ entitlementsPath = <<>>
  /\ components = <<>>
  /\ idx = 0
  /\ extraCounter = 0
  /\ err = <<>>
  /\ rec = FALSE
  /\ calls = <<>>
  /\ progress = <<>>
  /\ delivered = <<>>

NextTwo ==
  \/ Next
  \/ OtherSetupDirectories
  \/ OtherExtractApp
  \/ OtherExtractEntitlements
  \/ OtherSignComponents
  \/ OtherCreateResignedIPA
  \/ OtherDeferred

SpecTwo == InitTwo /\ [][NextTwo]_vars

\* ================================================================ the window
\* The Resign button of LaunchGUI.  Its handler runs on the event loop; the
\* goroutine it starts builds the Config from the entries as they are then,
\* calls Resign and, when it ends, enables the button again.
MaxInFlight == 2

\* strings.HasSuffix on the last element of a path: a suffix without
\* separator lies in the last element.
HasSuffix(name, suf) ==
  /\ Len(suf) <= Len(name)
  /\ SubSeq(name, Len(name) - Len(suf) + 1, Len(name)) = suf

\* The characters of a bundle identifier of Configs.
IdOf(b) ==
  IF b = "com.acme.app"
  THEN <<"c", "o", "m", ".", "a", "c", "m", "e", ".", "a", "p", "p">>
  ELSE <<>>

\* validateGUIInputs: the set of error messages.
validateGUIInputs(c, f) ==
  (IF c.SourceIPA = <<>> THEN {"Source IPA/APP file is required"}
   ELSE IF ~Exists(f, c.SourceIPA) THEN {"Source file does not exist"}
   ELSE IF ~HasSuffix(ToLower(Base(c.SourceIPA)), Suffix.ipa)
            /\ ~HasSuffix(ToLower(Base(c.SourceIPA)), Suffix.app)
     THEN {"Source file must be .ipa or .app"}
   ELSE {})
  \cup (IF c.Certificate = "" THEN {"Certificate name is required"} ELSE {})
  \cup (IF c.Entitlements = <<>> THEN {}
        ELSE IF ~Exists(f, c.Entitlements) THEN {"Entitlements file does not exist"}
        ELSE IF ~HasSuffix(ToLower(Base(c.Entitlements)), Suffix.plist)
          THEN {"Entitlements file must be .plist"}
        ELSE {})
  \cup (IF c.MobileProvision = <<>> THEN {}
        ELSE IF ~Exists(f, c.MobileProvision)
          THEN {"Mobile provision file does not exist"}
        ELSE IF ~HasSuffix(ToLower(Base(c.MobileProvision)), Suffix.mobileprovision)
          THEN {"Mobile provision file must be .mobileprovision"}
        ELSE {})
  \cup (IF c.BundleID # "" /\ ~isValidBundleID(IdOf(c.BundleID))
        THEN {"Invalid bundle ID format"} ELSE {})

\* What the entries of the window may hold when they are read.
GUIEntries ==
  {c \in Configs :
     c.Entitlements = <<>> /\ c.MobileProvision = <<>> /\ c.BundleID = ""}

\* A handler that leaves the button enabled.
DisableLate(g) == g

\* resignBtn.Disable()
Disable(g) == [g EXCEPT !.enabled = FALSE]

\* The window is open, next to a package and a text file.
GUIInit ==
  /\ gui = [enabled |-> TRUE, inFlight |-> 0, dialog |-> "none"]
  /\ sc = NoSetup
  /\ other = NoOther
  /\ config = HarnessConfig
  /\ callback = TRUE
  /\ fs = (<<>> :> DirEntry) @@ (<<Fixture.Sipa>> :> FileEntry("package")) @@
          (<<Fixture.Stxt>> :> FileEntry("text"))
  /\ fs0 = fs
  /\ zips = (<<Fixture.Sipa>> :> PackageOf({}))
  /\ pc = "idle"
  /\ tmpDir = <<>>
  /\ appDir = <<>>
  /\ appPath = <<>>
  /\ entitlementsPath = <<>>
  /\ components = <<>>
  /\ idx = 0
  /\ extraCounter = 0
  /\ err = <<>>
  /\ rec = FALSE
  /\ calls = <<>>
  /\ progress = <<>>
  /\ delivered = <<>>

\* The handler of the button, which a disabled button does not call: input
\* errors are shown in a dialog; otherwise the button is disabled and the
\* goroutine started.
Tapped ==
  /\ gui.enabled
  /\ pc # "exit"
  /\ gui.inFlight < MaxInFlight
  /\ \E e \in GUIEntries :
       IF validateGUIInputs(e, fs) # {}
       THEN /\ gui' = [gui EXCEPT !.dialog = "input errors"]
            /\ UNCHANGED pc
       ELSE /\ gui' = [Disable(gui) EXCEPT !.inFlight = gui.inFlight + 1]
            /\ pc' = "spawned"
  /\ UNCHANGED << config, callback, fs0, sc, other, tmpDir, appDir, fs, zips,
                  locals, err, rec, calls, progress, delivered >>

\* The goroutine builds the Config from the entries, makes the Resigner with
\* its callback and calls Resign.
GoroutineStarts ==
  /\ pc = "spawned"
  /\ \E e \in GUIEntries : config' = e
  /\ callback' = TRUE
  /\ fs0' = fs
  /\ pc' = "validate"
  /\ tmpDir' = <<>>
  /\ appDir' = <<>>
  /\ appPath' = <<>>
  /\ entitlementsPath' = <<>>
  /\ components' = <<>>
  /\ idx' = 0
  /\ extraCounter' = 0
  /\ err' = <<>>
  /\ rec' = FALSE
  /\ calls' = <<>>
  /\ progress' = <<>>
  /\ delivered' = <<>>
  /\ UNCHANGED << gui, sc, other, fs, zips >>

\* Resign has returned: the result is shown in a dialog and the deferred
\* function of the goroutine enables the button.  When Resign was left by a
\* panic only the deferred function runs, and the process ends.
GoroutineEnds ==
  /\ pc \in {"returned", "crashed"}
  /\ gui' = [enabled |-> TRUE, inFlight |-> gui.inFlight - 1,
             dialog |-> IF pc = "crashed" THEN gui.dialog
                        ELSE IF err # <<>> THEN "error" ELSE "success"]
  /\ pc' = IF pc = "crashed" THEN "exit" ELSE "idle"
  /\ UNCHANGED << config, callback, fs0, sc, other, tmpDir, appDir, fs, zips,
                  locals, err, rec, calls, progress, delivered >>

GUINext == Tapped \/ GoroutineStarts \/ Next \/ GoroutineEnds

SpecGUI == GUIInit /\ [][GUINext]_vars

\* ========================================================= the command line
\* A command line that accepts every source that exists.
validateCLIAnyExtension(c, f) ==
  IF c.SourceIPA = <<>> THEN <<"source IPA path is required (use -s flag)">>
  ELSE IF c.Certificate = "" THEN <<"certificate is required (use -c flag)">>
  ELSE IF ~Exists(f, c.SourceIPA) THEN <<"source file does not exist">>
  ELSE <<>>

\* validateCLIArguments: the first error, <<>> for nil.  The extensions are
\* compared as they are written, without lowering the case.
validateCLIArguments(c, f) ==
  IF c.SourceIPA = <<>> THEN <<"source IPA path is required (use -s flag)">>
  ELSE IF c.Certificate = "" THEN <<"certificate is required (use -c flag)">>
  ELSE IF ~Exists(f, c.SourceIPA) THEN <<"source file does not exist">>
  ELSE IF ~HasSuffix(Base(c.SourceIPA), Suffix.ipa)
           /\ ~HasSuffix(Base(c.SourceIPA), Suffix.app)
    THEN <<"source file must be .ipa or .app">>
  ELSE IF c.Entitlements # <<>> /\ ~Exists(f, c.Entitlements)
    THEN <<"entitlements file does not exist">>
  ELSE IF c.Entitlements # <<>> /\ ~HasSuffix(Base(c.Entitlements), Suffix.plist)
    THEN <<"entitlements file must be .plist">>
  ELSE IF c.MobileProvision # <<>> /\ ~Exists(f, c.MobileProvision)
    THEN <<"mobile provision file does not exist">>
  ELSE IF c.MobileProvision # <<>>
           /\ ~HasSuffix(Base(c.MobileProvision), Suffix.mobileprovision)
    THEN <<"mobile provision file must be .mobileprovision">>
  ELSE IF c.BundleID # ""
           /\ (Len(IdOf(c.BundleID)) < 3 \/ ~isValidBundleID(IdOf(c.BundleID)))
    THEN <<"invalid bundle ID format">>
  ELSE <<>>

\* The flags are parsed; the callback of runCLI prints each message.
CLIInit == InitAt("cli") /\ callback

\* runCLI up to the call of Resign: invalid flags end the process with
\* os.Exit(1); otherwise the Config is built from the flags and Resign called.
RunCLI ==
  /\ pc = "cli"
  /\ pc' = IF validateCLIArguments(config, fs) # <<>> THEN "exit" ELSE "validate"
  /\ UNCHANGED << config, callback, fs0, gui, sc, other, tmpDir, appDir, fs, zips,
                  locals, err, rec, calls, progress, delivered >>

\* runCLI after Resign: the result is printed and the process ends.
CLIExit ==
  /\ pc \in {"returned", "crashed"}
  /\ pc' = "exit"
  /\ UNCHANGED << config, callback, fs0, gui, sc, other, tmpDir, appDir, fs, zips,
                  locals, err, rec, calls, progress, delivered >>

SpecCLI == CLIInit /\ [][RunCLI \/ Next \/ CLIExit]_vars

\* ========================================================= the setup command
\* ExecuteFullSetup of a new SetupChecker.  sc holds the operating system the
\* program runs on, hasErrors, the required tools verified so far and those
\* whose check failed, the phases that have run, and the error returned.

\* A map of required tools none of which is critical.
OptionalTools ==
  [t \in {"go", "xcode-select", "codesign", "security", "plistbuddy"} |->
     [Critical |-> FALSE]]

\* initializeToolRequirements: the map of the required tools.
RequiredTools ==
  [t \in {"go", "xcode-select", "codesign", "security", "plistbuddy"} |->
     [Critical |-> TRUE]]

\* NewSetupChecker, on macOS or on another system.
SetupInit ==
  /\ \E os \in {"darwin", "linux"} : sc = [NoSetup EXCEPT !.goos = os]
  /\ pc = "systemInfo"
  /\ gui = NoGUI
  /\ other = NoOther
  /\ config = HarnessConfig
  /\ callback = FALSE
  /\ fs = (<<>> :> DirEntry)
  /\ fs0 = fs
  /\ zips = << >>
  /\ tmpDir = <<>>
  /\ appDir = <<>>
  /\ appPath = <<>>
  /\ entitlementsPath = <<>>
  /\ components = <<>>
  /\ idx = 0
  /\ extraCounter = 0
  /\ err = <<>>
  /\ rec = FALSE
  /\ calls = <<>>
  /\ progress = <<>>
  /\ delivered = <<>>

\* Phase 1: gatherSystemInfo returns nil whatever the commands answer.
GatherSystemInfo ==
  /\ pc = "systemInfo"
  /\ sc' = [sc EXCEPT !.phases = Append(@, "systemInfo")]
  /\ pc' = "os"
  /\ UNCHANGED << config, callback, fs0, gui, other, tmpDir, appDir, fs, zips,
                  locals, err, rec, calls, progress, delivered >>

\* Phase 2: verifyOperatingSystem.
VerifyOperatingSystem ==
  /\ pc = "os"
  /\ sc' = [sc EXCEPT !.hasErrors = @ \/ sc.goos # "darwin"]
  /\ pc' = "tools"
  /\ UNCHANGED << config, callback, fs0, gui, other, tmpDir, appDir, fs, zips,
                  locals, err, rec, calls, progress, delivered >>

\* verifyRequiredTools: one round of the loop over the map, whose order is
\* not fixed; verifyTool with either outcome of the tool's check.
VerifyTool ==
  /\ pc = "tools"
  /\ \E t \in DOMAIN RequiredTools \ sc.verified :
       \E ok \in BOOLEAN :
         sc' = [sc EXCEPT !.verified = @ \cup {t},
                          !.failed = IF ok THEN @ ELSE @ \cup {t},
                          !.hasErrors = @ \/ (~ok /\ RequiredTools[t].Critical)]
  /\ UNCHANGED << pc, config, callback, fs0, gui, other, tmpDir, appDir, fs,
                  zips, locals, err, rec, calls, progress, delivered >>

\* After the loop: with hasErrors the function returns its error.
PrerequisitesChecked ==
  /\ pc = "tools"
  /\ sc.verified = DOMAIN RequiredTools
  /\ IF sc.hasErrors
     THEN /\ sc' = [sc EXCEPT !.result = <<"prerequisites check failed">>]
          /\ pc' = "done"
     ELSE /\ pc' = "download"
          /\ UNCHANGED sc
  /\ UNCHANGED << config, callback, fs0, gui, other, tmpDir, appDir, fs, zips,
                  locals, err, rec, calls, progress, delivered >>

\* Phase 3: downloadDependencies, whose error is returned.
DownloadDependencies ==
  /\ pc = "download"
  /\ \E ok \in BOOLEAN :
       /\ sc' = [sc EXCEPT !.phases = Append(@, "download"),
                          !.result = IF ok THEN @ ELSE <<"go mod download failed">>]
       /\ pc' = IF ok THEN "tidy" ELSE "done"
  /\ UNCHANGED << config, callback, fs0, gui, other, tmpDir, appDir, fs, zips,
                  locals, err, rec, calls, progress, delivered >>

\* tidyDependencies, whose error is only a warning.
TidyDependencies ==
  /\ pc = "tidy"
  /\ sc' = [sc EXCEPT !.phases = Append(@, "tidy")]
  /\ pc' = "build"
  /\ UNCHANGED << config, callback, fs0, gui, other, tmpDir, appDir, fs, zips,
                  locals, err, rec, calls, progress, delivered >>

\* Phase 4: buildProject, whose error is returned.
BuildProject ==
  /\ pc = "build"
  /\ \E ok \in BOOLEAN :
       /\ sc' = [sc EXCEPT !.phases = Append(@, "build"),
                          !.result = IF ok THEN @ ELSE <<"build failed">>]
       /\ pc' = IF ok THEN "certificates" ELSE "done"
  /\ UNCHANGED << config, callback, fs0, gui, other, tmpDir, appDir, fs, zips,
                  locals, err, rec, calls, progress, delivered >>

\* Phase 5: discoverCertificates.
DiscoverCertificates ==
  /\ pc = "certificates"
  /\ sc' = [sc EXCEPT !.phases = Append(@, "certificates")]
  /\ pc' = "summary"
  /\ UNCHANGED << config, callback, fs0, gui, other, tmpDir, appDir, fs, zips,
                  locals, err, rec, calls, progress, delivered >>

\* Phase 6: printFinalSummary, and nil is returned.
PrintFinalSummary ==
  /\ pc = "summary"
  /\ sc' = [sc EXCEPT !.phases = Append(@, "summary")]
  /\ pc' = "done"
  /\ UNCHANGED << config, callback, fs0, gui, other, tmpDir, appDir, fs, zips,
                  locals, err, rec, calls, progress, delivered >>

SpecSetup ==
  SetupInit /\ [][GatherSystemInfo \/ VerifyOperatingSystem \/ VerifyTool
                  \/ PrerequisitesChecked \/ DownloadDependencies
                  \/ TidyDependencies \/ BuildProject \/ DiscoverCertificates
                  \/ PrintFinalSummary]_vars

\* ================================================================== claims
\* The positions of calls at which codesign was started.
CodesignAt == {i \in 1..Len(calls) : calls[i].tool = "codesign"}

InnerExts == {Suffix.appex, Suffix.framework, Suffix.dylib}

\* C1: every codesign invocation on an extension, framework or dynamic
\* library happens strictly before the first codesign invocation on an
\* application bundle.
C1_InnerBeforeApp ==
  \A i \in CodesignAt : \A j \in CodesignAt :
    (Ext(calls[i].target) = Suffix.app /\ Ext(calls[j].target) \in InnerExts) => j < i

\* C1 witness: a finished run that signed a library and then the bundle.
C1_Witness ==
  /\ pc = "returned"
  /\ \E i \in CodesignAt : \E j \in CodesignAt :
       /\ i < j
       /\ Ext(calls[i].target) = Suffix.dylib
       /\ Ext(calls[j].target) = Suffix.app

\* The entries of the tree below the application path, by kind.
TreeBelow == {q \in DOMAIN fs : IsPrefix(appPath, q)}

DirsNamed(ext) == {q \in TreeBelow : fs[q].isDir /\ Ext(q) = ext}

FilesNamed(ext) == {q \in TreeBelow : ~fs[q].isDir /\ Ext(q) = ext}

Signable ==
  DirsNamed(Suffix.appex) \cup DirsNamed(Suffix.framework) \cup FilesNamed(Suffix.dylib)
    \cup DirsNamed(Suffix.app)

\* C2: the sequence findComponents returns has one position for each .appex,
\* .framework and .app directory and each .dylib regular file of the tree
\* (length N+M+K+A, each exactly once), and the .app components are its
\* suffix.
C2_ComponentsOrdered ==
  pc \in {"signInner", "signApps"} =>
    /\ Len(components) =
         Cardinality(DirsNamed(Suffix.appex)) + Cardinality(DirsNamed(Suffix.framework))
           + Cardinality(FilesNamed(Suffix.dylib)) + Cardinality(DirsNamed(Suffix.app))
    /\ \A q \in Signable :
         Cardinality({i \in 1..Len(components) : components[i] = q}) = 1
    /\ \A i \in 1..Len(components) : \A j \in 1..Len(components) :
         (i < j /\ Ext(components[i]) = Suffix.app) => Ext(components[j]) = Suffix.app

\* C2 witness: a discovered list with a nested application bundle, which the
\* walk meets before a library it has to precede in the result.
C2_Witness ==
  /\ pc = "signInner"
  /\ Cardinality(DirsNamed(Suffix.app)) = 2
  /\ Cardinality(FilesNamed(Suffix.dylib)) = 1
  /\ Len(components) = 3

\* C3: once Resign has returned from a run whose setupDirectories succeeded,
\* whatever the result, the temp root does not exist.
C3_TempRootRemoved ==
  (pc = "returned" /\ tmpDir # <<>>) => ~Exists(fs, TmpPath)

\* C3 witness: a run that created the temp root, failed while signing and
\* has returned.
C3_Witness ==
  /\ pc = "returned"
  /\ tmpDir # <<>>
  /\ err = SignError
  /\ ~Exists(fs, TmpPath)

\* C4: a fault raised while Resign runs, also inside the progress callback,
\* never leaves Resign as a panic; it is returned as a non-nil error after
\* the cleanup has run.
C4_PanicContained ==
  /\ pc # "crashed"
  /\ (pc = "returned" /\ \E i \in 1..Len(progress) :
                            progress[i] = Msg("ERROR: panic occurred"))
       => (err # <<>> /\ (tmpDir # <<>> => ~Exists(fs, TmpPath)))

\* The output directory has not been touched and no archive was written.
NoOutput ==
  /\ \A q \in DOMAIN fs \cup DOMAIN fs0 :
       IsPrefix(ResignedDir, q)
         => (q \in DOMAIN fs /\ q \in DOMAIN fs0 /\ fs[q] = fs0[q])
  /\ \A q \in DOMAIN zips : ~IsPrefix(ResignedDir, q)

\* C5: a failing codesign call is the last external call of the run, the
\* Packaging step is never entered and Resign returns a non-nil error.
C5_CodesignFailureFatal ==
  \A i \in CodesignAt :
    ~calls[i].ok =>
      /\ i = Len(calls)
      /\ pc \in {"defer", "returned"}
      /\ err = SignError
      /\ NoOutput

\* C5 witness: a run that has returned after codesign failed on an
\* extension, with a component still unsigned.
C5_Witness ==
  /\ pc = "returned"
  /\ \E i \in CodesignAt : ~calls[i].ok /\ Ext(calls[i].target) = Suffix.appex
  /\ Cardinality(CodesignAt) < Len(components)

\* The positions of calls at which the identifier of an extension was set,
\* in call order, and the position at which that of the primary bundle was.
SetAt == {i \in 1..Len(calls) : calls[i].tool = "PlistBuddy -c Set:CFBundleIdentifier"}

ExtensionSetAt == {i \in SetAt : Ext(Dir(calls[i].target)) = Suffix.appex}

PrimarySetAt == {i \in SetAt : calls[i].target = InfoPlist(appPath)}

\* C6: a failed set-identifier call for an extension does not halt the run:
\* the next external call is codesign on that extension, the error of a run
\* that returns is never that failure, and a run that returns nil has passed
\* every discovered component to codesign.
C6_ExtensionIDFailureNotFatal ==
  \A i \in ExtensionSetAt :
    ~calls[i].ok =>
      /\ \/ /\ i < Len(calls)
            /\ calls[i + 1].tool = "codesign"
            /\ calls[i + 1].target = Dir(calls[i].target)
         \/ /\ i = Len(calls)
            /\ (rec \/ err = PanicError)
      /\ err \in {<<>>, SignError, PanicError, PackageError}
      /\ (err = SignError => \E j \in CodesignAt : ~calls[j].ok)
      /\ (pc = "returned" /\ err = <<>>) =>
           \A k \in 1..Len(components) :
             \E j \in CodesignAt : calls[j].target = components[k] /\ calls[j].ok

\* C6 witness: a run that ended in Done although the set-identifier call of
\* its first extension failed, the later extension and the bundle signed.
C6_Witness ==
  /\ pc = "returned"
  /\ err = <<>>
  /\ \E i \in ExtensionSetAt :
       /\ ~calls[i].ok
       /\ \E j \in CodesignAt : j > i + 1 /\ Ext(calls[j].target) = Suffix.appex

\* C7: when the set-identifier call for the primary bundle fails, Resign
\* returns a non-nil error, no component is passed to codesign and no output
\* is produced.
C7_PrimaryIDFailureFatal ==
  \A i \in PrimarySetAt :
    ~calls[i].ok =>
      /\ CodesignAt = {}
      /\ pc \in {"defer", "returned"}
      /\ err = <<"failed to handle bundle ID", "exit status">>
      /\ NoOutput

\* C7 witness: a run that has returned after that failure.
C7_Witness ==
  /\ pc = "returned"
  /\ \E i \in PrimarySetAt : ~calls[i].ok
  /\ Len(calls) = 3

\* The identifiers of the spec's example, by zero-based extension index + 1.
ExpectedExtensionIDs ==
  << "com.acme.app.extra0", "com.acme.app.extra1", "com.acme.app.extra2" >>

\* The extensions in discovery order, and the set-identifier calls made for
\* extensions in call order.
Extensions == SelectSeq(components, LAMBDA q : Ext(q) = Suffix.appex)

ExtensionSets ==
  SelectSeq(calls, LAMBDA c : c.tool = "PlistBuddy -c Set:CFBundleIdentifier"
                                /\ Ext(Dir(c.target)) = Suffix.appex)

\* C8: with bundle ID B the k-th set-identifier call for an extension is for
\* the k-th discovered extension and sets "B.extra<k-1>", whether or not the
\* earlier calls succeeded; the counter counts the extensions processed and
\* nothing else; without a bundle ID no identifier is set at all.
C8_ExtensionIDs ==
  /\ config.BundleID = "" => SetAt = {}
  /\ config.BundleID = "com.acme.app" =>
       /\ \A k \in 1..Len(ExtensionSets) :
            /\ ExtensionSets[k].target = InfoPlist(Extensions[k])
            /\ ExtensionSets[k].arg = ExpectedExtensionIDs[k]
       /\ \A i \in SetAt \ ExtensionSetAt :
            calls[i].target = InfoPlist(appPath) /\ calls[i].arg = config.BundleID
       /\ pc \in {"signInner", "signApps", "package", "finish"} =>
            /\ extraCounter = Len(ExtensionSets)
            /\ extraCounter =
                 Cardinality({k \in 1..Len(components) :
                    Ext(components[k]) = Suffix.appex /\
                    (k < idx \/ pc # "signInner")})

\* C8 witness: two extensions processed, the set-identifier call of the
\* first failed and that of the second set "com.acme.app.extra1".
C8_Witness ==
  /\ pc = "returned"
  /\ Len(ExtensionSets) = 2
  /\ ~ExtensionSets[1].ok
  /\ ExtensionSets[2].arg = "com.acme.app.extra1"

\* C9: with Config.Entitlements set, neither the profile-decode call nor the
\* read-plist-key call is made, and the entitlements file handed to every
\* codesign call holds exactly the content of the configured file.
C9_EntitlementsOverride ==
  config.Entitlements # <<>> =>
    /\ \A i \in 1..Len(calls) :
         /\ calls[i].tool # "security cms -D -i"
         /\ calls[i].tool # "PlistBuddy -x -c Print:Entitlements"
         /\ calls[i].tool = "codesign" => calls[i].ent = entitlementsPath
    /\ (entitlementsPath # <<>> /\ Exists(fs, TmpPath)) =>
         /\ Exists(fs, entitlementsPath)
         /\ fs[entitlementsPath].data = "entitlementsInput"
         /\ fs[config.Entitlements].data = "entitlementsInput"

\* C9 witness: a component is being signed in a run that has both an
\* entitlements file and a provisioning profile configured.
C9_Witness ==
  /\ config.Entitlements # <<>>
  /\ config.MobileProvision # <<>>
  /\ pc = "signApps"
  /\ CodesignAt # {}
  /\ fs[entitlementsPath].data = "entitlementsInput"

\* The configurations the claim names: a mandatory field is empty or a
\* configured path does not exist.
InvalidInput ==
  \/ config.SourceIPA = <<>>
  \/ config.Certificate = ""
  \/ ~Exists(fs0, config.SourceIPA)
  \/ (config.MobileProvision # <<>> /\ ~Exists(fs0, config.MobileProvision))
  \/ (config.Entitlements # <<>> /\ ~Exists(fs0, config.Entitlements))

ValidationErrors ==
  { <<"source IPA path is required">>, <<"certificate is required">>,
    <<"source file does not exist">>, <<"mobile provision file does not exist">>,
    <<"entitlements file does not exist">> }

\* C10: on such a configuration Resign does nothing but return a validation
\* error: it creates neither temp root nor working directory, emits no
\* progress message and starts no external tool.
C10_ValidationFailsClean ==
  InvalidInput =>
    /\ pc \in {"validate", "defer", "returned"}
    /\ (pc # "validate" => err \in ValidationErrors)
    /\ ~rec
    /\ tmpDir = <<>>
    /\ appDir = <<>>
    /\ \A q \in DOMAIN fs \cup DOMAIN fs0 :
         IsPrefix(TmpPath, q)
           => (q \in DOMAIN fs /\ q \in DOMAIN fs0 /\ fs[q] = fs0[q])
    /\ NoOutput
    /\ progress = <<>>
    /\ calls = <<>>

\* C10 witness: a run that has returned the error for a configured
\* entitlements file that does not exist.
C10_Witness ==
  /\ pc = "returned"
  /\ err = <<"entitlements file does not exist">>
  /\ config.MobileProvision # <<>>

\* The source exists and its extension is neither .ipa nor .app.
UnsupportedSource ==
  /\ config.SourceIPA # <<>>
  /\ Exists(fs0, config.SourceIPA)
  /\ ToLower(Ext(config.SourceIPA)) \notin {Suffix.ipa, Suffix.app}

\* C11: a source that exists but has an unsupported extension is rejected by
\* the validation step: the run never goes past it, the file system is as the
\* run found it and neither temp root nor working directory was created.
C11_UnsupportedRejectedByValidate ==
  UnsupportedSource =>
    /\ pc \in {"validate", "defer", "returned"}
    /\ fs = fs0
    /\ tmpDir = <<>>
    /\ appDir = <<>>

\* The entries of the working Payload directory.
PayloadEntries ==
  { q \in DOMAIN fs : Len(q) = Len(PayloadDir) + 1 /\ IsPrefix(PayloadDir, q) }

\* C12: extractApp succeeds, and so chooses an application root, only when
\* the working Payload directory holds exactly one entry; with none or with
\* more than one the run fails in extractApp.
C12_SinglePayloadEntry ==
  pc = "provision" =>
    /\ Cardinality(PayloadEntries) = 1
    /\ appPath \in PayloadEntries

\* The step of Resign a position belongs to: 1..8 for validate,
\* setupDirectories, extractApp, handleMobileProvision, extractEntitlements,
\* handleBundleID, signComponents and createResignedIPA, 9 for the final
\* message, 10 for the deferred function, 11 once Resign is left.
StepOf(p) ==
  CASE p = "validate" -> 1
    [] p = "setup" -> 2
    [] p = "extract" -> 3
    [] p = "provision" -> 4
    [] p = "entitlements" -> 5
    [] p = "bundleid" -> 6
    [] p \in {"sign", "signInner", "signApps"} -> 7
    [] p = "package" -> 8
    [] p = "finish" -> 9
    [] p = "defer" -> 10
    [] OTHER -> 11

\* C13: the steps of Resign run in the fixed order validate,
\* setupDirectories, extractApp, handleMobileProvision, extractEntitlements,
\* handleBundleID, signComponents, createResignedIPA: a run never goes back
\* to a step it has left, it enters a step only from the step before it and
\* only without an error or a pending panic, and once a step has failed the
\* next thing that runs is the deferred function.
C13_StepOrder ==
  [][ /\ StepOf(pc') >= StepOf(pc)
      /\ (StepOf(pc') > StepOf(pc) /\ StepOf(pc') <= 9)
           => (StepOf(pc') = StepOf(pc) + 1 /\ err' = <<>> /\ ~rec')
      /\ (StepOf(pc) <= 9 /\ (err' # <<>> \/ rec')) => pc' = "defer"
    ]_vars

\* C13 witness: a run that went through every step and is about to emit its
\* final message, with the application signed and the output written.
C13_Witness ==
  /\ pc = "finish"
  /\ CodesignAt # {}
  /\ ~NoOutput

\* The codesign calls made on one component.
SignedAt(component) == {i \in CodesignAt : calls[i].target = component}

\* C14: when Resign has returned nil, every component of the list that
\* findComponents returned was passed to codesign exactly once, and codesign
\* was started on nothing that is not in that list.
C14_EachComponentSignedOnce ==
  (pc = "returned" /\ err = <<>>) =>
    /\ \A k \in 1..Len(components) : Cardinality(SignedAt(components[k])) = 1
    /\ \A i \in CodesignAt :
         \E k \in 1..Len(components) : components[k] = calls[i].target

\* C14 witness: a successful run whose list holds a dynamic library, another
\* nested component and the application.
C14_Witness ==
  /\ pc = "returned"
  /\ err = <<>>
  /\ Len(components) >= 3
  /\ \E k \in 1..Len(components) : Ext(components[k]) = Suffix.dylib

\* C15: every codesign call of a run names the configured certificate as
\* identity and the one entitlements file of the run, tmp/entitlements.plist
\* below the directory of the source, and carries the flags -f and
\* --generate-entitlement-der; so identity and entitlements file are the same
\* for all components.
C15_UniformSigningParameters ==
  \A i \in CodesignAt :
    /\ calls[i].arg = config.Certificate
    /\ calls[i].ent = Dir(config.SourceIPA) \o <<Name.tmp, Name.entitlements>>
    /\ calls[i].ent = entitlementsPath
    /\ {"-f", "--generate-entitlement-der"} \subseteq calls[i].flags
    /\ \A j \in CodesignAt :
         calls[j].arg = calls[i].arg /\ calls[j].ent = calls[i].ent

\* C15 witness: codesign was started on two different components.
C15_Witness ==
  \E i, j \in CodesignAt :
    /\ calls[i].target # calls[j].target
    /\ calls[i].ok /\ calls[j].ok

\* C16: handleMobileProvision with a configured profile, once it has
\* succeeded, leaves in the application root a regular file
\* embedded.mobileprovision with the content of the configured profile,
\* whatever was there before, and changes no other path; without a
\* configured profile the step leaves the file system as it is.
C16_ProfileInstalled ==
  [][ pc = "provision" =>
        IF config.MobileProvision = <<>>
        THEN fs' = fs
        ELSE pc' = "entitlements" =>
               LET dst == appPath \o <<Name.embedded>>
               IN /\ dst \in DOMAIN fs'
                  /\ ~fs'[dst].isDir
                  /\ fs'[dst].data = fs[config.MobileProvision].data
                  /\ DOMAIN fs' = DOMAIN fs \cup {dst}
                  /\ \A q \in DOMAIN fs \ {dst} : fs'[q] = fs[q]
    ]_vars

\* C16 witness: the step has just replaced the profile the package came
\* with by the configured one.
C16_Witness ==
  /\ pc = "entitlements"
  /\ config.MobileProvision # <<>>
  /\ fs0[config.MobileProvision].data = "profileInput"
  /\ fs[appPath \o <<Name.embedded>>].data = "profileInput"

\* The positions of calls at which the profile decoder was started.
DecodeAt == {i \in 1..Len(calls) : calls[i].tool = "security cms -D -i"}

\* C17: with a profile configured and no entitlements file configured, the
\* decoder is started only after the configured profile was installed as
\* embedded.mobileprovision, and the entitlements file handed to codesign is
\* the one derived from the configured profile, never from the profile the
\* package came with.
C17_EntitlementsFromNewProfile ==
  (config.MobileProvision # <<>> /\ config.Entitlements = <<>>) =>
    /\ (DecodeAt # {} /\ Exists(fs, appPath))
         => /\ Exists(fs, appPath \o <<Name.embedded>>)
            /\ fs[appPath \o <<Name.embedded>>].data = "profileInput"
    /\ \A i \in CodesignAt :
         /\ DecodeAt # {}
         /\ Exists(fs, calls[i].ent)
              => fs[calls[i].ent].data = "entitlements(plist(profileInput))"

\* C17 witness: a component is being signed with entitlements derived from
\* the configured profile, in a package that came with another profile.
C17_Witness ==
  /\ config.MobileProvision # <<>>
  /\ config.Entitlements = <<>>
  /\ pc = "signApps"
  /\ CodesignAt # {}
  /\ fs[entitlementsPath].data = "entitlements(plist(profileInput))"
  /\ \E q \in DOMAIN fs0 : fs0[q].data = "profileEmbedded"

\* The positions of progress at which the final success message was emitted.
FinishedAt ==
  {i \in 1..Len(progress) : progress[i] = Msg("XReSign FINISHED")}

\* The last message of createResignedIPA, emitted once the output is written.
SavedTexts == {"Resigned IPA saved to: %s", "Resigned .app saved to: %s"}

\* C18 as stated: once Resign has returned, the final success message was
\* emitted if and only if the result is nil; whenever the message was
\* emitted it is the last progress message and the output had been written
\* before it.
C18_FinishedIffNil ==
  /\ pc = "returned" => ((FinishedAt # {}) <=> (err = <<>>))
  /\ \A i \in FinishedAt :
       /\ i = Len(progress)
       /\ i > 1
       /\ progress[i - 1].text \in SavedTexts

\* C18, amended: a nil result implies that the final success message was
\* emitted, once, as the last progress message; the message is emitted only
\* after createResignedIPA has emitted its last message and written the
\* output; and after the message the only other outcome is that the
\* callback panicked on it, in which case the panic message follows it and
\* Resign, if it returns, returns the panic error.
C18_FinishedOnSuccess ==
  /\ (pc = "returned" /\ err = <<>>) =>
       (Len(progress) > 0 /\ FinishedAt = {Len(progress)})
  /\ \A i \in FinishedAt :
       /\ FinishedAt = {i}
       /\ i > 1
       /\ progress[i - 1].text \in SavedTexts
       /\ progress[i - 1].path \in DOMAIN fs
       /\ pc \in {"defer", "returned", "crashed"}
       /\ \/ i = Len(progress) /\ (pc = "returned" => err = <<>>)
          \/ /\ i = Len(progress) - 1
             /\ callback
             /\ progress[Len(progress)] = Msg("ERROR: panic occurred")
             /\ err = <<"panic occurred">>

\* C18 witness: a run that has returned nil with the final success message
\* as its last progress message.
C18_Witness ==
  /\ pc = "returned"
  /\ err = <<>>
  /\ FinishedAt = {Len(progress)}

\* C19: with a callback, the callback has been invoked once for every
\* message passed to logProgress, with that message and in the order of the
\* logProgress calls; without a callback nothing was invoked, no panic is
\* pending or was recovered and the run did not crash.
C19_CallbackPerMessage ==
  IF callback
  THEN /\ Len(delivered) = Len(progress)
       /\ \A i \in 1..Len(progress) : delivered[i] = progress[i]
  ELSE /\ delivered = <<>>
       /\ ~rec
       /\ pc # "crashed"
       /\ err # <<"panic occurred">>

\* C19 witness: a successful run whose callback received every message, the
\* first and the last one included.
C19_Witness ==
  /\ callback
  /\ pc = "returned"
  /\ err = <<>>
  /\ Len(delivered) > 5
  /\ delivered[1] = Msg("Start (re)sign the app...")
  /\ delivered[Len(delivered)] = Msg("XReSign FINISHED")

\* The items of the output directory.
ResignedItems ==
  { q \in DOMAIN fs : Len(q) = Len(ResignedDir) + 1 /\ IsPrefix(ResignedDir, q) }

\* The name of the application bundle without its four-character extension.
AppStem == SubSeq(Base(appPath), 1, Len(Base(appPath)) - 4)

\* C20: when Resign has returned nil, the directory Resigned next to the
\* source holds exactly one item: for an archive source the file
\* <AppName>.ipa, for a bundle source the directory <AppName>.app, where
\* <AppName>.app is the bundle found in the payload; nothing that was below
\* Resigned before the run is left.
C20_SingleOutputItem ==
  (pc = "returned" /\ err = <<>>) =>
    /\ Base(appPath) = AppStem \o Suffix.app
    /\ IF ToLower(Ext(config.SourceIPA)) = Suffix.ipa
       THEN /\ ResignedItems = {ResignedDir \o <<AppStem \o Suffix.ipa>>}
            /\ \A q \in ResignedItems : ~fs[q].isDir /\ q \in DOMAIN zips
       ELSE /\ ResignedItems = {ResignedDir \o <<AppStem \o Suffix.app>>}
            /\ \A q \in ResignedItems : fs[q].isDir
    /\ \A q \in DOMAIN fs0 :
         (IsPrefix(ResignedDir, q) /\ q # ResignedDir) => q \notin DOMAIN fs

\* C20 witness: a successful run on an archive whose name differs from the
\* name of the bundle inside, in a directory that held an earlier output.
C20_Witness ==
  /\ pc = "returned"
  /\ err = <<>>
  /\ config.SourceIPA = <<Fixture.Sipa>>
  /\ <<Name.Resigned, Fixture.OldIpa>> \in DOMAIN fs0
  /\ <<Name.Resigned, <<"A", ".", "i", "p", "a">>>> \in DOMAIN fs

\* The tree below a directory: relative path to entry.
TreeAt(f, d) ==
  [r \in {Rel(d, q) : q \in {x \in DOMAIN f : IsPrefix(d, x) /\ x # d}} |-> f[d \o r]]

\* C21: when an archive was extracted into a directory, the unmodified
\* directory archived again and that archive extracted into a second
\* directory, the second extraction succeeds and the second directory holds
\* the same relative paths as the first, directories where the first has
\* directories and files with the same content where it has files.
C21_RoundTrip ==
  /\ err # <<"unzip again">>
  /\ pc = "done" => TreeAt(fs, ZipPaths.again) = TreeAt(fs, ZipPaths.dest)

\* C21 witness: the round trip of a tree with a file inside a directory.
C21_Witness ==
  /\ pc = "done"
  /\ IsDirAt(fs, ZipPaths.again \o <<Fixture.X>>)
  /\ Exists(fs, ZipPaths.again \o <<Fixture.X, Fixture.Y>>)
  /\ fs[ZipPaths.again \o <<Fixture.X, Fixture.Y>>] = FileEntry("b")

\* C22: whatever the entry names are, names with ".." included, the first
\* extraction has created or changed nothing outside its destination
\* directory: every path that is not below the destination is as it was.
C22_UnzipStaysBelowDest ==
  pc \in {"zipDirectory", "failed"} =>
    \A q \in DOMAIN fs :
      ~IsPrefix(ZipPaths.dest, q) => (q \in DOMAIN fs0 /\ fs[q] = fs0[q])

\* C23: when unzip has returned nil, no creation of a directory and no write
\* of a file has failed: every directory entry of the archive is a directory
\* below the destination and every file entry a regular file.
C23_UnzipReportsFailures ==
  pc = "zipDirectory" =>
    \A i \in 1..Len(zips[ZipPaths.src]) :
      LET e == zips[ZipPaths.src][i]
          fpath == Clean(ZipPaths.dest \o e.name)
      IN /\ fpath \in DOMAIN fs
         /\ fs[fpath].isDir = e.isDir

\* The annotation Resign puts in front of the error of each step.
StepAnnotation(k) ==
  CASE k = 2 -> "failed to setup directories"
    [] k = 3 -> "failed to extract app"
    [] k = 4 -> "failed to handle mobile provision"
    [] k = 5 -> "failed to extract entitlements"
    [] k = 6 -> "failed to handle bundle ID"
    [] k = 7 -> "failed to sign components"
    [] k = 8 -> "failed to create resigned IPA"
    [] OTHER -> "validate"

\* C25 as stated: every non-nil error Resign returns, a validation error
\* included, is a cause with the name of a step in front of it.
C25_EveryErrorAnnotated ==
  (pc = "returned" /\ err # <<>>) =>
    /\ Len(err) >= 2
    /\ \E k \in 1..8 : err[1] = StepAnnotation(k)

\* C25, amended: the error of each step from setupDirectories to
\* createResignedIPA is returned with that step's annotation in front of its
\* cause; an error of validate is returned as validate produced it, without
\* annotation, and a recovered panic is returned as the panic error, which
\* names no step.
C25_StepErrorsAnnotated ==
  [][ (err = <<>> /\ err' # <<>>) =>
        IF pc = "validate"
        THEN err' \in ValidationErrors
        ELSE IF pc = "defer"
        THEN err' = <<"panic occurred">>
        ELSE /\ StepOf(pc) \in 2..8
             /\ Len(err') >= 2
             /\ err'[1] = StepAnnotation(StepOf(pc))
    ]_vars

\* C25 witness: a run that has returned the annotated error of its last
\* step.
C25_Witness ==
  /\ pc = "returned"
  /\ Len(err) = 2
  /\ err[1] = "failed to create resigned IPA"

\* C26: when extractApp starts, the temp root holds nothing but the working
\* directory and the working directory is empty, also when dir/tmp was there
\* before the run; and what was below dir/tmp before the run is still there
\* when Resign has returned.
C26_FreshWorkingDirectory ==
  /\ pc = "extract" =>
       \A q \in DOMAIN fs : IsPrefix(TmpPath, q) => q \in {TmpPath, AppDirPath}
  /\ pc = "returned" =>
       \A q \in DOMAIN fs0 : IsPrefix(TmpPath, q) => (q \in DOMAIN fs /\ fs[q] = fs0[q])

\* The positions of the dots of an identifier, with the positions before its
\* first and after its last character: two neighbours bound a segment.
SegmentBounds(id) == {0, Len(id) + 1} \cup {i \in 1..Len(id) : id[i] = "."}

\* The com.company.app shape: at least two segments separated by dots, none
\* of them empty, made of letters, digits and hyphens.
WellFormedId(id) ==
  /\ \E i \in 1..Len(id) : id[i] = "."
  /\ \A i \in SegmentBounds(id) : (i + 1) \notin SegmentBounds(id)
  /\ \A i \in 1..Len(id) :
       id[i] \in {"a", "B", "1", "-", "."}

\* C29: a non-empty bundle identifier passes the check of the command line,
\* and that of the window, exactly when it has the com.company.app shape.
C29_AcceptedIdsWellFormed ==
  (pc # "input" /\ config.BundleID # <<>>) =>
    ((err = <<>>) <=> WellFormedId(config.BundleID))

TargetOf(q) == CopyPaths.treeDst \o SubSeq(q, Len(CopyPaths.treeSrc) + 1, Len(q))

CopiedTo(q) ==
  /\ TargetOf(q) \in DOMAIN fs
  /\ fs[TargetOf(q)].isDir = fs0[q].isDir
  /\ fs[TargetOf(q)].data = fs0[q].data

UntouchedAt(q) ==
  IF TargetOf(q) \in DOMAIN fs0
  THEN TargetOf(q) \in DOMAIN fs /\ fs[TargetOf(q)] = fs0[TargetOf(q)]
  ELSE TargetOf(q) \notin DOMAIN fs

\* C28: after copyDir has returned nil, every directory and every file below
\* the source is below the destination at the same relative path, a
\* directory as a directory and a file with the same content; after it has
\* returned an error, the paths walked before the failing one are copied
\* and stay, and the failing one and all after it were not touched.  The
\* source is as it was in both cases.
C28_CopyDirMirrors ==
  pc = "copied dir" =>
    LET w == Walk(fs0, CopyPaths.treeSrc)
    IN /\ err = <<>> => \A i \in 1..Len(w) : CopiedTo(w[i])
       /\ err # <<>> =>
            \E n \in 0..(Len(w) - 1) :
              \A i \in 1..Len(w) :
                IF i <= n THEN CopiedTo(w[i]) ELSE UntouchedAt(w[i])
       /\ \A i \in 1..Len(w) : w[i] \in DOMAIN fs /\ fs[w[i]] = fs0[w[i]]

\* C28 witness: a successful copy of a tree with a file in a subdirectory.
C28_Witness ==
  /\ pc = "copied dir"
  /\ err = <<>>
  /\ (CopyPaths.treeSrc \o <<Fixture.Keep, Fixture.Y>>) \in DOMAIN fs0
  /\ (CopyPaths.treeDst \o <<Fixture.Keep, Fixture.Y>>) \in DOMAIN fs
  /\ fs[CopyPaths.treeDst \o <<Fixture.Keep, Fixture.Y>>] = FileEntry("a")
  /\ fs[CopyPaths.treeDst \o <<Fixture.Y>>] = FileEntry("b")

\* The place of a path in the list of components, 0 when it is not in it.
PlaceOf(q) ==
  IF \E k \in 1..Len(components) : components[k] = q
  THEN CHOOSE k \in 1..Len(components) : components[k] = q
  ELSE 0

\* C30: the identifier of the primary bundle is set, successfully, before
\* the first codesign call of the run; with a bundle ID configured, the call
\* right before the codesign call on an extension is the set-identifier call
\* for that extension, and when that call is made every component listed
\* before the extension has been signed and no other has.
C30_IdentifiersBeforeSignatures ==
  /\ \A i \in PrimarySetAt : \A j \in CodesignAt : i < j
  /\ (config.BundleID # "" /\ CodesignAt # {})
       => \E i \in PrimarySetAt : calls[i].ok
  /\ \A j \in CodesignAt :
       (config.BundleID # "" /\ Ext(calls[j].target) = Suffix.appex)
         => /\ j > 1
            /\ calls[j - 1].tool = "PlistBuddy -c Set:CFBundleIdentifier"
            /\ calls[j - 1].target = calls[j].target \o <<Name.Info>>
  /\ \A i \in ExtensionSetAt :
       LET b == PlaceOf(Dir(calls[i].target))
       IN /\ b > 0
          /\ \A a \in 1..(b - 1) :
               \E j \in CodesignAt : j < i /\ calls[j].target = components[a]
          /\ \A j \in CodesignAt :
               j < i => (PlaceOf(calls[j].target) > 0 /\ PlaceOf(calls[j].target) < b)

\* C30 witness: with a bundle ID configured, a second extension has its
\* identifier set after the first one was signed, and is signed next.
C30_Witness ==
  /\ config.BundleID # ""
  /\ PrimarySetAt # {}
  /\ \E i \in ExtensionSetAt : \E j \in CodesignAt :
       /\ j < i
       /\ Ext(calls[j].target) = Suffix.appex
       /\ (i + 1) \in CodesignAt

\* The positions of the first run from the end of extractApp to the end of
\* createResignedIPA.
Working ==
  {"provision", "entitlements", "bundleid", "sign", "signInner", "signApps",
   "package"}

\* Every entry of the source package has an entry in the output archive.
OutputComplete ==
  LET out == Join(ResignedDir, <<OutputName(Base(appPath))>>)
  IN /\ out \in DOMAIN zips
     /\ \A i \in 1..Len(SourceArchive) :
          \E j \in 1..Len(zips[out]) : zips[out][j].name = SourceArchive[i].name

\* C24: two runs started on sources in one directory have the same temp
\* directory and the same working directory; the deferred cleanup of one run
\* removes that temp directory whatever the position of the other run; and a
\* run whose temp directory was removed between its extraction and the end
\* of its packaging does not return nil with a complete output archive.
C24_SharedTempRoot ==
  /\ [](/\ (tmpDir # <<>> /\ other.tmpDir # <<>>) =>
             (tmpDir = other.tmpDir /\ appDir = other.appDir)
        /\ (other.at \in Working /\ pc = "returned") =>
             (err # <<>> \/ ~OutputComplete))
  /\ [][(other.pc = "defer" /\ other'.pc = "returned" /\ other.tmpDir # <<>>) =>
          \A q \in DOMAIN fs' : ~IsPrefix(other.tmpDir, q)]_vars

\* The first run has signed everything and fails in createResignedIPA on a
\* working directory the second run, which returned nil, has removed.
C24_Witness ==
  /\ pc = "defer"
  /\ err = PackageError
  /\ \A i \in 1..Len(calls) : calls[i].ok
  /\ other.pc = "returned"
  /\ other.err = <<>>
  /\ other.at = "package"
  /\ tmpDir # <<>>
  /\ ~Exists(fs, tmpDir)

\* C31: whenever a signed component lies inside the directory of another
\* signed component, the inner one is passed to codesign before the outer one.
C31_InnerBeforeOuter ==
  \A i \in CodesignAt : \A j \in CodesignAt :
    ( /\ calls[i].target # calls[j].target
      /\ IsPrefix(calls[j].target, calls[i].target) ) => i < j

\* The source and the configured input files as the run found them.
InputPaths ==
  {q \in DOMAIN fs0 :
     \/ config.SourceIPA # <<>> /\ IsPrefix(config.SourceIPA, q)
     \/ q = config.Entitlements
     \/ q = config.MobileProvision}

\* C32: during a run the Config keeps its values, and the source and the
\* configured entitlements and profile files stay as they were: none is
\* written or deleted.
C32_InputsUntouched ==
  /\ [](\A q \in InputPaths : q \in DOMAIN fs /\ fs[q] = fs0[q])
  /\ [][config' = config]_vars

\* What lies at or below the output directory.
ResignedTree(f) == [q \in {x \in DOMAIN f : IsPrefix(ResignedDir, x)} |-> f[q]]

\* C33: no step other than createResignedIPA changes the output directory or
\* anything in it, so a run that fails before that step leaves it as it
\* was; and when createResignedIPA is entered, every component of the list
\* has been signed by a codesign call that succeeded.
C33_OutputClearedOnlyAtPackaging ==
  /\ [][pc # "package" => ResignedTree(fs') = ResignedTree(fs)]_vars
  /\ []((pc \in {"defer", "returned"} /\ err # <<>> /\ err # PanicError
           /\ err[1] # PackageError[1])
          => ResignedTree(fs) = ResignedTree(fs0))
  /\ [](pc = "package" =>
          \A k \in 1..Len(components) :
            \E i \in CodesignAt : calls[i].target = components[k] /\ calls[i].ok)

\* C33 witness: a run over a directory with an earlier output has returned
\* the error of a failed codesign call, and the earlier output is still there.
C33_Witness ==
  /\ pc = "returned"
  /\ err # <<>>
  /\ err[1] = "failed to sign components"
  /\ CodesignAt # {}
  /\ Exists(fs, <<Name.Resigned, Fixture.OldIpa>>)
  /\ fs[<<Name.Resigned, Fixture.OldIpa>>] = FileEntry("previous")

\* C34: when every step that is taken up is completed, every run of Resign
\* eventually returns, with nil or with an error, and by then its temp
\* directory has been removed.
C34_EventuallyReturns ==
  <>(pc = "returned" /\ (tmpDir # <<>> => ~Exists(fs, tmpDir)))

\* The archive written for a package, when there is one.
OutputArchivePath == Join(ResignedDir, <<OutputName(Base(appPath))>>)

\* C35: once createResignedIPA has returned nil for a package, the output
\* archive has one entry for each path at or below the working directory,
\* named by the path relative to that directory and holding what the path
\* holds, so that every entry of the source package is there under its own
\* name; no entry stands for entitlements.plist or provisioning.plist of
\* the temp directory or for the output archive.
C35_ArchiveHoldsWorkingTree ==
  (pc = "finish" /\ ToLower(Ext(config.SourceIPA)) = Suffix.ipa) =>
    /\ OutputArchivePath \in DOMAIN zips
    /\ LET archive == zips[OutputArchivePath]
           below == {q \in DOMAIN fs : IsPrefix(appDir, q)}
       IN /\ \A i \in 1..Len(archive) :
               /\ (appDir \o archive[i].name) \in below
               /\ archive[i].isDir = fs[appDir \o archive[i].name].isDir
               /\ archive[i].data = fs[appDir \o archive[i].name].data
               /\ (appDir \o archive[i].name) \notin
                    {tmpDir \o <<Name.entitlements>>,
                     tmpDir \o <<Name.provisioning>>, OutputArchivePath}
               /\ \A k \in 1..Len(archive[i].name) :
                    archive[i].name[k] \notin {Name.entitlements, Name.provisioning}
          /\ \A q \in below :
               \E i \in 1..Len(archive) : appDir \o archive[i].name = q
          /\ \A j \in 1..Len(SourceArchive) :
               \E i \in 1..Len(archive) : archive[i].name = SourceArchive[j].name

\* C35 witness: the archive holds Payload/A.app/a.dylib while the scratch
\* files are in the temp directory.
C35_Witness ==
  /\ pc = "finish"
  /\ OutputArchivePath \in DOMAIN zips
  /\ \E i \in 1..Len(zips[OutputArchivePath]) :
       zips[OutputArchivePath][i].name = <<Name.Payload, Fixture.Aapp, Fixture.Adylib>>
  /\ Exists(fs, tmpDir \o <<Name.entitlements>>)
  /\ Exists(fs, tmpDir \o <<Name.provisioning>>)

\* C36: in the window, from the start of a resign until its goroutine has
\* ended the Resign button is disabled, so at most one run started from the
\* window is in flight; the button is enabled again when a run ends, whether
\* Resign returned nil, returned an error or was left by a panic.
C36_OneRunInFlight ==
  /\ [](pc \notin {"idle", "exit"} => ~gui.enabled)
  /\ [](gui.inFlight <= 1)
  /\ [](pc = "idle" => gui.enabled /\ gui.inFlight = 0)
  /\ [][(pc \in {"returned", "crashed"} /\ pc' \notin {"returned", "crashed"})
          => (gui.enabled)']_vars

\* A second run is at its packaging step after a first run has succeeded.
C36_Witness ==
  /\ gui.dialog = "success"
  /\ pc = "package"
  /\ gui.inFlight = 1
  /\ ~gui.enabled

LaterPhases == <<"download", "tidy", "build", "certificates", "summary">>

\* C38: when the setup command runs on another system than macOS or the check
\* of a required tool has failed, ExecuteFullSetup returns its
\* prerequisites error without running the download, the build or the
\* certificate discovery; the later phases run only after every prerequisite
\* check has passed, in the order download, tidy, build, certificate
\* discovery, summary.
C38_PrerequisitesGateLaterPhases ==
  /\ (sc.goos # "darwin" \/ sc.failed # {}) =>
       /\ \A i \in 1..Len(sc.phases) :
            \A j \in 1..Len(LaterPhases) : sc.phases[i] # LaterPhases[j]
       /\ pc \in {"systemInfo", "os", "tools", "done"}
       /\ pc = "done" => sc.result = <<"prerequisites check failed">>
  /\ Len(sc.phases) > 1 =>
       /\ sc.goos = "darwin"
       /\ sc.verified = DOMAIN RequiredTools
       /\ sc.failed = {}
  /\ Len(sc.phases) <= 1 + Len(LaterPhases)
  /\ \A i \in 2..Len(sc.phases) : sc.phases[i] = LaterPhases[i - 1]

\* On macOS the check of PlistBuddy alone has failed and ExecuteFullSetup has
\* returned.
C38_Witness ==
  /\ pc = "done"
  /\ sc.goos = "darwin"
  /\ sc.failed = {"plistbuddy"}
  /\ sc.result = <<"prerequisites check failed">>

====
